---------------------------- MODULE Spec2Model ----------------------------
(***************************************************************************)
(* A model of bitcrust's block storage core:                               *)
(*   - the spent tree (store_block, find_end, revolve_orphan_pointers,     *)
(*     connect_block) over an arena of records,                            *)
(*   - the block_add orchestrator (add_block and its connection loop)      *)
(*     over the block-hash index,                                          *)
(*   - the flat file set (write / read).                                   *)
(* The specifications share the module's variables: SpecTree and          *)
(* SpecOrphan drive the spent tree through its own API as the unit tests   *)
(* do, SpecAdd and SpecAddLive drive add_block from concurrent callers,    *)
(* SpecFile drives FlatFileSet::write and read, SpecWriters two instances  *)
(* of the set on one directory, SpecNames the file names and FilePtr.      *)
(***************************************************************************)
EXTENDS Integers, Sequences, FiniteSets, TLC

VARIABLES
    recs,       \* the spent tree's record arena: a sequence of records
    tblocks,    \* SpecTree: menu block -> index of its guard record (0: not stored)
    conn,       \* SpecTree: menu block -> the last connect_block call made on it
    last,       \* SpecTree: the last spent-tree call and what it returned
    shadow,     \* SpecTree: the arena as it would be without the tracked failed call
    track,      \* SpecTree: the failed connect_block call the shadow leaves out
    index,      \* the block-hash index: block hash -> set of guard / concrete entries
    txIndex,    \* the tx-hash index: the transactions stored so far
    proc,       \* SpecAdd: each caller of add_block, its position and its locals
    calls,      \* SpecAdd: SpentTree::connect_block calls made, with their count
    adds,       \* SpecAdd: block hash -> add_block calls started for it
    returned,   \* SpecAdd: the blocks for which an add_block call has returned
    overlapped, \* SpecAdd: two add_block calls have been in progress at once
    ff,         \* the FlatFileSet instance: first_file, last_file, maps
    disk,       \* the files of the set on disk: file number -> write position, bytes
    locked,     \* the file numbers whose lock is held
    wlog,       \* SpecFile: the write calls made, with what each returned
    fstate,     \* SpecFile: "open", or "panicked" once a call has panicked
    lastRead,   \* SpecFile: the last read call and the bytes it returned
    writers,    \* SpecWriters: each writer's FlatFileSet instance and its place in write
    conv        \* SpecNames: a file number and position, and what they convert to

treeVars == <<recs, tblocks, conn, last, shadow, track>>
treeOnly == <<tblocks, conn, last, shadow, track>>
addVars  == <<index, txIndex, proc, calls, adds, returned, overlapped>>
fileVars == <<ff, disk, locked, wlog, fstate, lastRead, writers>>

(***************************************************************************)
(* Bounds of the model.                                                    *)
(***************************************************************************)
MaxTreeOps == 5      \* SpecTree: find_end and connect_block calls in one behaviour
MaxAdds    == 4      \* SpecAdd: add_block calls in one behaviour
MaxSame    == 2      \* SpecAdd: add_block calls for one block
NumProcs   == 2      \* SpecAdd: concurrent callers of add_block
MaxSize    == 28     \* SpecFile: max_size, the write position after which a file is full
MaxBufLen  == 2      \* SpecFile: bytes in one written buffer
MaxWrites  == 4      \* SpecFile: write calls in one behaviour
NumWriters == 2      \* SpecWriters: FlatFileSet instances on one directory
SkipFields == 4      \* skip entries per record (params::SKIP_FIELDS)

(***************************************************************************)
(* Small helpers.                                                          *)
(***************************************************************************)
Min(S) == CHOOSE x \in S : \A y \in S : x <= y
Max(S) == CHOOSE x \in S : \A y \in S : x >= y

RECURSIVE Log2(_)
Log2(d) == IF d <= 1 THEN 0 ELSE 1 + Log2(d \div 2)

(***************************************************************************)
(* Content pointers: a FilePtr with its kind tag.  pos stands for the      *)
(* position in the block-content store, idx for the output index.          *)
(***************************************************************************)
NullPtr      == [kind |-> "null",  pos |-> 0, idx |-> 0]
TxPtr(t)     == [kind |-> "tx",    pos |-> t, idx |-> 0]
OutPtr(t, k) == [kind |-> "out",   pos |-> t, idx |-> k]
GuardHdr(h)  == [kind |-> "guard", pos |-> h, idx |-> 0]
BlockHdr(h)  == [kind |-> "block", pos |-> h, idx |-> 0]

\* the "unconnected" value of a record's previous link; arena indexes start at 1
NoPrev    == 0
\* the value find_end and Record::new put in every skip entry
SkipUnset == -1

UnsetSkips == [n \in 1..SkipFields |-> SkipUnset]

\* Record::new(ptr): nothing linked yet
NewRecord(p) == [ptr |-> p, previous |-> NoPrev, skips |-> UnsetSkips]

(***************************************************************************)
(* SpentTree::create_block and store_block.                                *)
(***************************************************************************)
CreateBlock(hdr, ptrs) ==
    <<NewRecord(GuardHdr(hdr))>>
        \o [n \in 1..Len(ptrs) |-> NewRecord(ptrs[n])]
        \o <<NewRecord(BlockHdr(hdr))>>

\* variant: the end pointer is taken one record past the run
StoreBlockEndPastRun(rs, hdr, ptrs) ==
    LET block == CreateBlock(hdr, ptrs)
    IN  [recs  |-> rs \o block,
         start |-> Len(rs) + 1,
         end   |-> Len(rs) + 1 + Len(block)]

\* the arena after the append, and the BlockPtr returned
StoreBlock(rs, hdr, ptrs) ==
    LET block == CreateBlock(hdr, ptrs)
    IN  [recs  |-> rs \o block,
         start |-> Len(rs) + 1,
         end   |-> Len(rs) + 1 + (Len(block) - 1)]

(***************************************************************************)
(* RecordPtr helpers.                                                      *)
(***************************************************************************)
SetPrevious(rs, i, dest) == [rs EXCEPT ![i].previous = dest]

\* this_ptr.iter(..).count(): the records after the guard, up to the blockheader
RECURSIVE BlockSize(_, _)
BlockSize(rs, start) ==
    IF start + 1 > Len(rs) \/ rs[start + 1].ptr.kind = "block"
    THEN 0
    ELSE 1 + BlockSize(rs, start + 1)

\* the records met by following previous from cur, cur first
RECURSIVE Chain(_, _, _)
Chain(rs, cur, fuel) ==
    IF cur = NoPrev \/ fuel = 0
    THEN <<>>
    ELSE <<cur>> \o Chain(rs, rs[cur].previous, fuel - 1)

Range(s) == {s[n] : n \in DOMAIN s}

(***************************************************************************)
(* Record::seek_and_set, the spend scan of one record.                     *)
(* A skip entry d of the record at cur leads to cur - d.  The scan takes   *)
(* it only when that target is an ancestor of cur on the branch and no     *)
(* record jumped over carries the transaction or the output searched for.  *)
(***************************************************************************)
\* variant: a skip entry is taken whenever it stays inside the arena
SkipTrusted(rs, cur, d, t, k) ==
    /\ d >= 1
    /\ cur - d >= 1

\* variant: a skip entry is taken whenever its target is on the branch
SkipOnBranch(rs, cur, d, t, k) ==
    /\ d >= 1
    /\ cur - d >= 1
    /\ cur - d \in Range(Chain(rs, cur, Len(rs)))

SkipUsable(rs, cur, d, t, k) ==
    /\ d >= 1
    /\ cur - d >= 1
    /\ LET ch  == Chain(rs, cur, Len(rs))
           pos == {n \in DOMAIN ch : ch[n] = cur - d}
       IN  /\ pos # {}
           /\ \A n \in 2..(Min(pos) - 1) :
                 rs[ch[n]].ptr \notin {TxPtr(t), OutPtr(t, k)}

NextPos(rs, cur, t, k) ==
    LET usable == {d \in Range(rs[cur].skips) : SkipUsable(rs, cur, d, t, k)}
    IN  IF usable = {} THEN rs[cur].previous ELSE cur - Max(usable)

RECURSIVE Seek(_, _, _, _, _)
Seek(rs, cur, t, k, fuel) ==
    IF rs[cur].ptr = TxPtr(t)
    THEN [result |-> "Ok", at |-> cur]
    ELSE IF rs[cur].ptr = OutPtr(t, k)
    THEN [result |-> "OutputAlreadySpent", at |-> cur]
    ELSE IF rs[cur].previous = NoPrev \/ fuel = 0
    THEN [result |-> "OutputNotFound", at |-> cur]
    ELSE Seek(rs, NextPos(rs, cur, t, k), t, k, fuel - 1)

\* the positions the scan visits, in order, from cur on
RECURSIVE SeekPath(_, _, _, _, _)
SeekPath(rs, cur, t, k, fuel) ==
    IF \/ rs[cur].ptr = TxPtr(t)
       \/ rs[cur].ptr = OutPtr(t, k)
       \/ rs[cur].previous = NoPrev
       \/ fuel = 0
    THEN <<cur>>
    ELSE <<cur>> \o SeekPath(rs, NextPos(rs, cur, t, k), t, k, fuel - 1)

\* the skip array of record i after its scan ended at record at
RecordSkip(rs, i, at) ==
    LET d == i - at
    IN  IF d >= 1 /\ Log2(d) + 1 <= SkipFields
        THEN [rs[i].skips EXCEPT ![Log2(d) + 1] = d]
        ELSE rs[i].skips

SeekAndSet(rs, i) ==
    LET p == rs[i].ptr
    IN  IF p.kind = "tx"
        THEN [result |-> "Ok", skips |-> rs[i].skips]
        ELSE IF p.kind # "out"
        THEN [result |-> "OutputNotFound", skips |-> rs[i].skips]
        ELSE LET f == Seek(rs, i - 1, p.pos, p.idx, Len(rs))
             IN  [result |-> f.result,
                  skips  |-> IF f.result = "Ok"
                             THEN RecordSkip(rs, i, f.at)
                             ELSE rs[i].skips]

(***************************************************************************)
(* seek_and_set_inputs: one scan per record of the block, in parallel;     *)
(* the results are collected in record order and folded, so the error      *)
(* returned is the one of the lowest-indexed failing record.               *)
\* variant: the error returned is the one of the scan that is collected last
SeekAndSetInputsLastError(rs, start, size) ==
    LET res  == [n \in 1..size |-> SeekAndSet(rs, start + n)]
        errs == {n \in 1..size : res[n].result # "Ok"}
    IN  [recs   |-> [i \in DOMAIN rs |->
                        IF i \in (start + 1)..(start + size)
                        THEN [rs[i] EXCEPT !.skips = res[i - start].skips]
                        ELSE rs[i]],
         result |-> IF errs = {} THEN "Ok" ELSE res[Max(errs)].result]

(***************************************************************************)
SeekAndSetInputs(rs, start, size) ==
    LET res  == [n \in 1..size |-> SeekAndSet(rs, start + n)]
        errs == {n \in 1..size : res[n].result # "Ok"}
    IN  [recs   |-> [i \in DOMAIN rs |->
                        IF i \in (start + 1)..(start + size)
                        THEN [rs[i] EXCEPT !.skips = res[i - start].skips]
                        ELSE rs[i]],
         result |-> IF errs = {} THEN "Ok" ELSE res[Min(errs)].result]

(***************************************************************************)
(* Variants of connect_block with one plausible slip each; the claims'     *)
(* formulas are checked to reject them.                                    *)
(***************************************************************************)
\* the link to the parent is made only after the scan
ConnectBlockLinkAfterScan(rs, prevEnd, start) ==
    LET size == BlockSize(rs, start)
        r2   == [i \in DOMAIN rs |->
                    IF i \in (start + 1)..(start + size)
                    THEN [rs[i] EXCEPT !.previous = i - 1]
                    ELSE rs[i]]
        scan == SeekAndSetInputs(r2, start, size)
        end  == start + 1 + size
    IN  IF scan.result # "Ok"
        THEN [recs |-> scan.recs, result |-> scan.result, end |-> NoPrev]
        ELSE [recs   |-> SetPrevious(SetPrevious(scan.recs, end, end - 1),
                                     start, prevEnd),
              result |-> "Ok",
              end    |-> end]

\* the slice handed to set_prev_minus_one starts at the guard itself
ConnectBlockSliceAtGuard(rs, prevEnd, start) ==
    LET r1   == SetPrevious(rs, start, prevEnd)
        size == BlockSize(r1, start)
        r2   == [i \in DOMAIN r1 |->
                    IF i \in start..(start + size) /\ i > 1
                    THEN [r1[i] EXCEPT !.previous = i - 1]
                    ELSE r1[i]]
        scan == SeekAndSetInputs(r2, start, size)
        end  == start + 1 + size
    IN  IF scan.result # "Ok"
        THEN [recs |-> scan.recs, result |-> scan.result, end |-> NoPrev]
        ELSE [recs   |-> SetPrevious(SetPrevious(scan.recs, end, end - 1),
                                     start, prevEnd),
              result |-> "Ok",
              end    |-> end]

\* a guard that already has a previous link keeps it
ConnectBlockLinkOnce(rs, prevEnd, start) ==
    LET r1   == IF rs[start].previous = NoPrev
                THEN SetPrevious(rs, start, prevEnd)
                ELSE rs
        size == BlockSize(r1, start)
        r2   == [i \in DOMAIN r1 |->
                    IF i \in (start + 1)..(start + size)
                    THEN [r1[i] EXCEPT !.previous = i - 1]
                    ELSE r1[i]]
        scan == SeekAndSetInputs(r2, start, size)
        end  == start + 1 + size
    IN  IF scan.result # "Ok"
        THEN [recs |-> scan.recs, result |-> scan.result, end |-> NoPrev]
        ELSE [recs   |-> SetPrevious(scan.recs, end, end - 1),
              result |-> "Ok",
              end    |-> end]

\* a block whose end record is linked already is taken to be on the branch:
\* its guard is linked behind its own end record
ConnectBlockBehindOwnEnd(rs, prevEnd, start) ==
    LET size == BlockSize(rs, start)
        end  == start + 1 + size
        prev == IF rs[end].previous # NoPrev THEN end ELSE prevEnd
        r1   == SetPrevious(rs, start, prev)
        r2   == [i \in DOMAIN r1 |->
                    IF i \in (start + 1)..(start + size)
                    THEN [r1[i] EXCEPT !.previous = i - 1]
                    ELSE r1[i]]
        scan == SeekAndSetInputs(r2, start, size)
    IN  IF scan.result # "Ok"
        THEN [recs |-> scan.recs, result |-> scan.result, end |-> NoPrev]
        ELSE [recs   |-> SetPrevious(SetPrevious(scan.recs, end, end - 1),
                                     start, prev),
              result |-> "Ok",
              end    |-> end]

\* variant: a connected block's start record is made a plain blockheader
ConnectBlockUnguards(rs, prevEnd, start) ==
    LET r1   == SetPrevious(rs, start, prevEnd)
        size == BlockSize(r1, start)
        r2   == [i \in DOMAIN r1 |->
                    IF i \in (start + 1)..(start + size)
                    THEN [r1[i] EXCEPT !.previous = i - 1]
                    ELSE r1[i]]
        scan == SeekAndSetInputs(r2, start, size)
        end  == start + 1 + size
        done == SetPrevious(SetPrevious(scan.recs, end, end - 1), start, prevEnd)
    IN  IF scan.result # "Ok"
        THEN [recs |-> scan.recs, result |-> scan.result, end |-> NoPrev]
        ELSE [recs   |-> [done EXCEPT ![start].ptr = BlockHdr(@.pos)],
              result |-> "Ok",
              end    |-> end]

\* variant: the end record is not linked to the record before it
ConnectBlockEndUnlinked(rs, prevEnd, start) ==
    LET r1   == SetPrevious(rs, start, prevEnd)
        size == BlockSize(r1, start)
        r2   == [i \in DOMAIN r1 |->
                    IF i \in (start + 1)..(start + size)
                    THEN [r1[i] EXCEPT !.previous = i - 1]
                    ELSE r1[i]]
        scan == SeekAndSetInputs(r2, start, size)
        end  == start + 1 + size
    IN  IF scan.result # "Ok"
        THEN [recs |-> scan.recs, result |-> scan.result, end |-> NoPrev]
        ELSE [recs   |-> SetPrevious(scan.recs, start, prevEnd),
              result |-> "Ok",
              end    |-> end]

(***************************************************************************)
(* SpentTree::connect_block(previous_end, target_start).                   *)
(***************************************************************************)
ConnectBlock(rs, prevEnd, start) ==
    LET r1   == SetPrevious(rs, start, prevEnd)
        size == BlockSize(r1, start)
        r2   == [i \in DOMAIN r1 |->
                    IF i \in (start + 1)..(start + size)
                    THEN [r1[i] EXCEPT !.previous = i - 1]
                    ELSE r1[i]]
        scan == SeekAndSetInputs(r2, start, size)
        end  == start + 1 + size
    IN  IF scan.result # "Ok"
        THEN [recs |-> scan.recs, result |-> scan.result, end |-> NoPrev]
        ELSE [recs   |-> SetPrevious(SetPrevious(scan.recs, end, end - 1),
                                     start, prevEnd),
              result |-> "Ok",
              end    |-> end]

(***************************************************************************)
(* SpentTree::find_end(target_start).                                      *)
(***************************************************************************)
FindEnd(rs, start) ==
    LET size == BlockSize(rs, start)
        end  == start + 1 + size
    IN  [recs |-> [i \in DOMAIN rs |->
                      IF i \in (start + 1)..(start + size)
                      THEN [rs[i] EXCEPT !.skips = UnsetSkips, !.previous = i - 1]
                      ELSE IF i = end
                      THEN [rs[i] EXCEPT !.previous = i - 1]
                      ELSE rs[i]],
         end  |-> end]

(***************************************************************************)
(* SpecTree: the spent tree driven as test_spent_tree_connect drives it.   *)
(***************************************************************************)
Menu == 1..5

MenuBlock(b) ==
    CASE b = 1 -> [hdr |-> 1,  ptrs |-> <<TxPtr(2)>>]
      [] b = 2 -> [hdr |-> 3,  ptrs |-> <<TxPtr(4), OutPtr(2, 0)>>]
      [] b = 3 -> [hdr |-> 5,  ptrs |-> <<TxPtr(6), OutPtr(2, 0)>>]
      [] b = 4 -> [hdr |-> 7,  ptrs |-> <<TxPtr(8), OutPtr(6, 1),
                                          TxPtr(9), OutPtr(2, 1)>>]
      [] b = 5 -> [hdr |-> 10, ptrs |-> <<TxPtr(11), OutPtr(2, 1),
                                          TxPtr(12), OutPtr(2, 2)>>]

NoTrack == [child |-> 0, parent |-> 0]

NoCall == [op |-> "none", parent |-> 0, child |-> 0, result |-> "none", n |-> 0,
           again |-> FALSE]

TreeInit ==
    /\ recs = <<>>
    /\ tblocks = [b \in Menu |-> 0]
    /\ conn = [b \in Menu |-> [parent |-> 0, result |-> "none"]]
    /\ last = NoCall
    /\ shadow = <<>>
    /\ track = NoTrack

TStart(b) == tblocks[b]
TEnd(b)   == tblocks[b] + Len(MenuBlock(b).ptrs) + 1
Stored(b) == tblocks[b] # 0
\* the block's end record is linked: find_end or a successful connect_block
Ended(b)  == Stored(b) /\ recs[TEnd(b)].previous # NoPrev

TStoreBlock(b) ==
    /\ ~Stored(b)
    /\ \A a \in Menu : a < b => Stored(a)
    /\ LET s  == StoreBlock(recs, MenuBlock(b).hdr, MenuBlock(b).ptrs)
           sh == StoreBlock(shadow, MenuBlock(b).hdr, MenuBlock(b).ptrs)
       IN  /\ recs' = s.recs
           /\ shadow' = sh.recs
           /\ tblocks' = [tblocks EXCEPT ![b] = s.start]
    /\ last' = [op |-> "store", parent |-> 0, child |-> b, result |-> "none",
                n |-> last.n, again |-> FALSE]
    /\ UNCHANGED <<conn, track>>
    /\ UNCHANGED <<addVars, fileVars, conv>>

TFindEnd(b) ==
    /\ Stored(b)
    /\ recs[TStart(b)].previous = NoPrev
    /\ last.n < MaxTreeOps
    /\ recs' = FindEnd(recs, TStart(b)).recs
    /\ shadow' = FindEnd(shadow, TStart(b)).recs
    /\ last' = [op |-> "find_end", parent |-> 0, child |-> b, result |-> "none",
                n |-> last.n + 1, again |-> FALSE]
    /\ UNCHANGED <<tblocks, conn, track>>
    /\ UNCHANGED <<addVars, fileVars, conv>>

\* p's branch does not run through b: connecting b onto p closes no cycle
OffBranch(p, b) == TStart(b) \notin Range(Chain(recs, TEnd(p), Len(recs)))

TConnectBlock(p, b) ==
    /\ p # b
    /\ Ended(p)
    /\ Stored(b)
    /\ OffBranch(p, b)
    /\ last.n < MaxTreeOps
    /\ LET c  == ConnectBlock(recs, TEnd(p), TStart(b))
           sh == ConnectBlock(shadow, TEnd(p), TStart(b))
           \* the first failed call is the one the shadow arena leaves out
           skip == track = NoTrack /\ c.result # "Ok"
       IN  /\ recs' = c.recs
           /\ shadow' = IF skip THEN shadow ELSE sh.recs
           /\ track' = IF skip THEN [child |-> b, parent |-> p] ELSE track
           /\ conn' = [conn EXCEPT ![b] = [parent |-> p, result |-> c.result]]
           /\ last' = [op |-> "connect", parent |-> p, child |-> b,
                       result |-> c.result, n |-> last.n + 1,
                       \* the call before this one was made on the same pair
                       again |-> (last.op = "connect" /\ last.parent = p
                                                     /\ last.child = b)]
    /\ UNCHANGED tblocks
    /\ UNCHANGED <<addVars, fileVars, conv>>

NextTree ==
    \/ \E b \in Menu : TStoreBlock(b)
    \/ \E b \in Menu : TFindEnd(b)
    \/ \E p \in Menu, b \in Menu : TConnectBlock(p, b)

(***************************************************************************)
(* SpentTree::revolve_orphan_pointers(target_start): every null record of  *)
(* the block gets the output pointer of the input at its position after    *)
(* the last transaction record.  ok is FALSE when the tx-hash index does   *)
(* not hold the input's transaction (the expect panics).                   *)
(***************************************************************************)
\* the blocks add_block is called with: hash, previous hash, transactions
\* (id and inputs as <<previous transaction, output index>>)
Genesis == 1
Hashes  == 1..5

BlockDef(h) ==
    CASE h = 1 -> [prev |-> 0, txs |-> <<[id |-> 10, ins |-> <<>>]>>]
      [] h = 2 -> [prev |-> 1, txs |-> <<[id |-> 20, ins |-> <<>>]>>]
      [] h = 3 -> [prev |-> 2, txs |-> <<[id |-> 30, ins |-> <<<<20, 0>>>>]>>]
      [] h = 4 -> [prev |-> 2, txs |-> <<[id |-> 40, ins |-> <<<<20, 0>>>>],
                                         [id |-> 41, ins |-> <<<<20, 0>>>>]>>]
      [] h = 5 -> [prev |-> 3, txs |-> <<[id |-> 50, ins |-> <<<<30, 0>>>>]>>]

\* the blocks of the orphan-resolution runs: 6 <- 7 <- 8, where block 8
\* spends outputs of the transactions of both its ancestors
OrphanMenu == 6..8

OrphanDef(h) ==
    CASE h = 6 -> [prev |-> 0, txs |-> <<[id |-> 60, ins |-> <<>>]>>]
      [] h = 7 -> [prev |-> 6, txs |-> <<[id |-> 61, ins |-> <<>>]>>]
      [] h = 8 -> [prev |-> 7,
                   txs |-> <<[id |-> 70, ins |-> <<<<60, 0>>, <<61, 1>>, <<60, 2>>>>],
                             [id |-> 71, ins |-> <<<<61, 0>>>>]>>]

AllTxs == UNION ({Range(BlockDef(h).txs) : h \in Hashes}
                    \cup {Range(OrphanDef(h).txs) : h \in OrphanMenu})

\* Transaction::parse of the content a transaction pointer leads to
TxInputs(t) == (CHOOSE x \in AllTxs : x.id = t).ins

\* variant: only the null records are counted as inputs
RECURSIVE ResolveFromCountsNullOnly(_, _, _, _, _)
ResolveFromCountsNullOnly(rs, txs, i, txPtr, inputIdx) ==
    LET ptr == rs[i].ptr
    IN  IF ptr.kind = "null"
        THEN LET inp == TxInputs(txPtr.pos)[inputIdx + 1]
             IN  IF inp[1] \notin txs
                 THEN [recs |-> rs, ok |-> FALSE]
                 ELSE ResolveFromCountsNullOnly(
                          [rs EXCEPT ![i].ptr = OutPtr(inp[1], inp[2])],
                          txs, i + 1, txPtr, inputIdx + 1)
        ELSE IF ptr.kind = "tx"
        THEN ResolveFromCountsNullOnly(rs, txs, i + 1, ptr, 0)
        ELSE IF ptr.kind = "block"
        THEN [recs |-> rs, ok |-> TRUE]
        ELSE ResolveFromCountsNullOnly(rs, txs, i + 1, txPtr, inputIdx)

RECURSIVE ResolveFrom(_, _, _, _, _)
ResolveFrom(rs, txs, i, txPtr, inputIdx) ==
    LET ptr == rs[i].ptr
    IN  IF ptr.kind = "null"
        THEN LET inp == TxInputs(txPtr.pos)[inputIdx + 1]
             IN  IF inp[1] \notin txs
                 THEN [recs |-> rs, ok |-> FALSE]
                 ELSE ResolveFrom([rs EXCEPT ![i].ptr = OutPtr(inp[1], inp[2])],
                                  txs, i + 1, txPtr, inputIdx + 1)
        ELSE IF ptr.kind = "tx"
        THEN ResolveFrom(rs, txs, i + 1, ptr, 0)
        ELSE IF ptr.kind = "block"
        THEN [recs |-> rs, ok |-> TRUE]
        ELSE ResolveFrom(rs, txs, i + 1, txPtr, inputIdx + 1)

ResolveOrphanPointers(rs, txs, start) ==
    ResolveFrom(rs, txs, start + 1, NullPtr, 0)

(***************************************************************************)
(* The block-hash index (HashIndex): get, get_or_set and set, each atomic. *)
(***************************************************************************)
GuardEntry(bp)    == [guard |-> TRUE,  start |-> bp.start, end |-> bp.end]
ConcreteEntry(bp) == [guard |-> FALSE, start |-> bp.start, end |-> bp.end]

IndexGet(ix, h) == ix[h]

\* the concrete entry at h, or none and the guard added
IndexGetOrSet(ix, h, g) ==
    LET found == {e \in ix[h] : ~e.guard}
    IN  IF found # {}
        THEN [index |-> ix, found |-> TRUE, ptr |-> CHOOSE e \in found : TRUE]
        ELSE [index |-> [ix EXCEPT ![h] = @ \cup {g}], found |-> FALSE, ptr |-> g]

\* variant: the entry is added whatever the hash holds
IndexSetUnconditional(ix, h, e, solved) ==
    [index |-> [ix EXCEPT ![h] = @ \cup {e}], ok |-> TRUE]

\* variant: guard entries never stand in the way of binding the hash
IndexSetIgnoresGuards(ix, h, e, solved) ==
    IF \A x \in ix[h] : x.guard
    THEN [index |-> [ix EXCEPT ![h] = {e}], ok |-> TRUE]
    ELSE [index |-> ix, ok |-> FALSE]

\* binds h to e when every entry at h is among the solved guards
IndexSet(ix, h, e, solved) ==
    IF ix[h] \subseteq solved
    THEN [index |-> [ix EXCEPT ![h] = {e}], ok |-> TRUE]
    ELSE [index |-> ix, ok |-> FALSE]

\* block_exists: the hash has a concrete entry
BlockExists(ix, h) == \E e \in IndexGet(ix, h) : ~e.guard

is_genesis_block(h) == h = Genesis

(***************************************************************************)
(* verify_and_store_transactions: the transactions are stored one after    *)
(* the other; each input becomes an output pointer when its transaction is *)
(* in the tx-hash index by then, a null pointer otherwise.                 *)
(***************************************************************************)
RECURSIVE VerifyAndStore(_, _, _)
VerifyAndStore(txs, todoTxs, acc) ==
    IF todoTxs = <<>>
    THEN [txIndex |-> txs, ptrs |-> acc]
    ELSE LET tx   == Head(todoTxs)
             txs2 == txs \cup {tx.id}
             outs == [n \in 1..Len(tx.ins) |->
                         IF tx.ins[n][1] \in txs2
                         THEN OutPtr(tx.ins[n][1], tx.ins[n][2])
                         ELSE NullPtr]
         IN  VerifyAndStore(txs2, Tail(todoTxs), acc \o <<TxPtr(tx.id)>> \o outs)

(***************************************************************************)
(* SpecOrphan: blocks stored in whatever order, with the input records     *)
(* that verify_and_store could not resolve left null, then resolved, ended *)
(* and connected.  shadow holds the arena as it was before the last call.  *)
(***************************************************************************)
MaxOrphanOps == 4

OStart(h)  == tblocks[h - 5]
OStored(h) == OStart(h) # 0
OEnd(h)    == OStart(h) + BlockSize(recs, OStart(h)) + 1
OEnded(h)  == OStored(h) /\ recs[OEnd(h)].previous # NoPrev

OCall(op, p, h, res, n) ==
    [op |-> op, parent |-> p, child |-> h, result |-> res, n |-> n,
     again |-> FALSE]

\* verify_and_store_transactions and store_block
OStoreBlock(h) ==
    /\ ~OStored(h)
    /\ LET v == VerifyAndStore(txIndex, OrphanDef(h).txs, <<>>)
           s == StoreBlock(recs, h, v.ptrs)
       IN  /\ txIndex' = v.txIndex
           /\ recs' = s.recs
           /\ tblocks' = [tblocks EXCEPT ![h - 5] = s.start]
    /\ shadow' = recs
    /\ last' = OCall("store", 0, h, "none", last.n)
    /\ UNCHANGED <<conn, track>>
    /\ UNCHANGED <<index, proc, calls, adds, returned, overlapped>>
    /\ UNCHANGED <<fileVars, conv>>

\* revolve_orphan_pointers
OResolve(h) ==
    /\ OStored(h)
    /\ last.n < MaxOrphanOps
    /\ LET r == ResolveOrphanPointers(recs, txIndex, OStart(h))
       IN  /\ recs' = r.recs
           /\ last' = OCall("resolve", 0, h, IF r.ok THEN "Ok" ELSE "panic",
                            last.n + 1)
    /\ shadow' = recs
    /\ UNCHANGED <<tblocks, conn, track>>
    /\ UNCHANGED addVars
    /\ UNCHANGED <<fileVars, conv>>

OFindEnd(h) ==
    /\ OStored(h)
    /\ last.n < MaxOrphanOps
    /\ recs' = FindEnd(recs, OStart(h)).recs
    /\ shadow' = recs
    /\ last' = OCall("find_end", 0, h, "none", last.n + 1)
    /\ UNCHANGED <<tblocks, conn, track>>
    /\ UNCHANGED addVars
    /\ UNCHANGED <<fileVars, conv>>

OConnectBlock(p, h) ==
    /\ p # h
    /\ OEnded(p)
    /\ OStored(h)
    /\ OStart(h) \notin Range(Chain(recs, OEnd(p), Len(recs)))
    /\ last.n < MaxOrphanOps
    /\ LET c == ConnectBlock(recs, OEnd(p), OStart(h))
       IN  /\ recs' = c.recs
           /\ last' = OCall("connect", p, h, c.result, last.n + 1)
    /\ shadow' = recs
    /\ UNCHANGED <<tblocks, conn, track>>
    /\ UNCHANGED addVars
    /\ UNCHANGED <<fileVars, conv>>

NextOrphan ==
    \/ \E h \in OrphanMenu : OStoreBlock(h)
    \/ \E h \in OrphanMenu : OResolve(h)
    \/ \E h \in OrphanMenu : OFindEnd(h)
    \/ \E p \in OrphanMenu, h \in OrphanMenu : OConnectBlock(p, h)

(***************************************************************************)
(* SpecAdd: add_block called by NumProcs callers.                          *)
(***************************************************************************)
Procs == 1..NumProcs

NoBlockPtr == [start |-> 0, end |-> 0]

IdleProc == [pc |-> "idle", blk |-> 0, bp |-> NoBlockPtr, prev |-> NoBlockPtr,
             todo |-> <<>>, cur |-> <<>>, pend |-> {},
             second |-> FALSE, snap |-> <<>>]

AddInit ==
    /\ index = [h \in Hashes |-> {}]
    /\ txIndex = {}
    /\ proc = [p \in Procs |-> IdleProc]
    /\ calls = <<>>
    /\ adds = [h \in Hashes |-> 0]
    /\ returned = {}
    /\ overlapped = FALSE

Active(p) == proc[p].pc \notin {"idle", "panicked"}

RECURSIVE SumAdds(_)
SumAdds(S) == IF S = {} THEN 0
              ELSE LET h == CHOOSE x \in S : TRUE IN adds[h] + SumAdds(S \ {h})

\* one more SpentTree::connect_block call in the log
Logged(c) == IF c \in DOMAIN calls
             THEN [calls EXCEPT ![c] = @ + 1]
             ELSE (c :> 1) @@ calls

CallRecord(rs, prevEnd, start, res) ==
    [parent |-> rs[prevEnd].ptr.pos, child |-> rs[start].ptr.pos,
     start |-> start, result |-> res]

\* add_block returns
Return(p) ==
    /\ proc' = [proc EXCEPT ![p] = [IdleProc EXCEPT !.blk = proc[p].blk]]
    /\ returned' = returned \cup {proc[p].blk}

\* add_block panics: an unwrap on an error, or an expect that fails
Panic(p) ==
    /\ proc' = [proc EXCEPT ![p] = [IdleProc EXCEPT !.pc = "panicked",
                                                    !.blk = proc[p].blk]]
    /\ UNCHANGED returned

\* add_block entered: block_exists
AddBlockEnter(p, h) ==
    /\ proc[p].pc = "idle"
    /\ \A q \in Procs : q < p => proc[q].pc # "idle"
    /\ adds[h] < MaxSame
    /\ SumAdds(Hashes) < MaxAdds
    /\ adds' = [adds EXCEPT ![h] = @ + 1]
    /\ overlapped' = (overlapped \/ \E q \in Procs \ {p} : Active(q))
    /\ IF BlockExists(index, h)
       THEN /\ proc' = [proc EXCEPT ![p] = [IdleProc EXCEPT !.blk = h]]
            /\ returned' = returned \cup {h}
       ELSE /\ proc' = [proc EXCEPT ![p] =
                            [IdleProc EXCEPT !.pc = "store", !.blk = h,
                                             !.second = (h \in returned),
                                             !.snap = <<index, Len(recs)>>]]
            /\ UNCHANGED returned
    /\ UNCHANGED <<recs, index, txIndex, calls>>
    /\ UNCHANGED <<treeOnly, fileVars, conv>>

\* verify_and_store_transactions, block_headers.write, spent_tree.store_block
AddBlockStore(p) ==
    /\ proc[p].pc = "store"
    /\ LET h  == proc[p].blk
           v  == VerifyAndStore(txIndex, BlockDef(h).txs, <<>>)
           s  == StoreBlock(recs, h, v.ptrs)
           bp == [start |-> s.start, end |-> s.end]
       IN  /\ txIndex' = v.txIndex
           /\ recs' = s.recs
           /\ proc' = [proc EXCEPT ![p].bp = bp,
                                   ![p].pc = IF is_genesis_block(h)
                                             THEN "loop" ELSE "get_or_set",
                                   ![p].todo = IF is_genesis_block(h)
                                               THEN <<[block |-> bp, hash |-> h,
                                                       solved |-> {}]>>
                                               ELSE <<>>]
    /\ UNCHANGED <<index, calls, adds, returned, overlapped>>
    /\ UNCHANGED <<treeOnly, fileVars, conv>>

\* block_index.get_or_set(prev_hash, block_ptr.to_guard())
AddBlockGetOrSet(p) ==
    /\ proc[p].pc = "get_or_set"
    /\ LET r == IndexGetOrSet(index, BlockDef(proc[p].blk).prev,
                              GuardEntry(proc[p].bp))
       IN  /\ index' = r.index
           /\ IF r.found
              THEN /\ proc' = [proc EXCEPT ![p].pc = "connect",
                                           ![p].prev = [start |-> r.ptr.start,
                                                        end |-> r.ptr.end]]
                   /\ UNCHANGED returned
              ELSE Return(p)
    /\ UNCHANGED <<recs, txIndex, calls, adds, overlapped>>
    /\ UNCHANGED <<treeOnly, fileVars, conv>>

\* variant: the result of the first connection is not looked at
ConnectFirstIgnoresError(p) ==
    /\ proc[p].pc = "connect"
    /\ LET c == ConnectBlock(recs, proc[p].prev.end, proc[p].bp.start)
       IN  /\ recs' = c.recs
           /\ calls' = Logged(CallRecord(recs, proc[p].prev.end,
                                         proc[p].bp.start, c.result))
           /\ proc' = [proc EXCEPT ![p].pc = "loop",
                                   ![p].todo = <<[block |-> proc[p].bp,
                                                  hash |-> proc[p].blk,
                                                  solved |-> {}]>>]
           /\ UNCHANGED returned
    /\ UNCHANGED <<index, txIndex, adds, overlapped>>
    /\ UNCHANGED <<treeOnly, fileVars, conv>>

\* connect_block: the first connection
ConnectFirst(p) ==
    /\ proc[p].pc = "connect"
    /\ LET c == ConnectBlock(recs, proc[p].prev.end, proc[p].bp.start)
       IN  /\ recs' = c.recs
           /\ calls' = Logged(CallRecord(recs, proc[p].prev.end,
                                         proc[p].bp.start, c.result))
           /\ IF c.result = "Ok"
              THEN /\ proc' = [proc EXCEPT ![p].pc = "loop",
                                           ![p].todo = <<[block |-> proc[p].bp,
                                                          hash |-> proc[p].blk,
                                                          solved |-> {}]>>]
                   /\ UNCHANGED returned
              ELSE Panic(p)
    /\ UNCHANGED <<index, txIndex, adds, overlapped>>
    /\ UNCHANGED <<treeOnly, fileVars, conv>>

\* connect_block: todo.pop() and block_index.set
ConnectLoopSet(p) ==
    /\ proc[p].pc = "loop"
    /\ LET td == proc[p].todo
           c  == td[Len(td)]
           r  == IndexSet(index, c.hash, ConcreteEntry(c.block), c.solved)
           rest == SubSeq(td, 1, Len(td) - 1)
       IN  /\ index' = r.index
           /\ IF r.ok
              THEN IF rest = <<>>
                   THEN Return(p)
                   ELSE /\ proc' = [proc EXCEPT ![p].todo = rest]
                        /\ UNCHANGED returned
              ELSE /\ proc' = [proc EXCEPT ![p].todo = rest, ![p].cur = c,
                                           ![p].pc = "get"]
                   /\ UNCHANGED returned
    /\ UNCHANGED <<recs, txIndex, calls, adds, overlapped>>
    /\ UNCHANGED <<treeOnly, fileVars, conv>>

\* variant: after a failed set the connection is dropped, guards or not
ConnectLoopGetDropsGuards(p) ==
    /\ proc[p].pc = "get"
    /\ IF proc[p].todo = <<>>
       THEN Return(p)
       ELSE /\ proc' = [proc EXCEPT ![p].pc = "loop"]
            /\ UNCHANGED returned
    /\ UNCHANGED <<recs, index, txIndex, calls, adds, overlapped>>
    /\ UNCHANGED <<treeOnly, fileVars, conv>>

\* connect_block: block_index.get after a failed set
ConnectLoopGet(p) ==
    /\ proc[p].pc = "get"
    /\ LET c      == proc[p].cur
           guards == IndexGet(index, c.hash)
       IN  IF \E e \in guards : ~e.guard
           THEN \* added by a concurrent user
                IF proc[p].todo = <<>>
                THEN Return(p)
                ELSE /\ proc' = [proc EXCEPT ![p].pc = "loop"]
                     /\ UNCHANGED returned
           ELSE /\ proc' = [proc EXCEPT
                               ![p].todo = Append(@, [c EXCEPT !.solved = guards]),
                               ![p].pend = guards \ c.solved,
                               ![p].pc = IF guards \ c.solved = {}
                                         THEN "loop" ELSE "guards"]
                /\ UNCHANGED returned
    /\ UNCHANGED <<recs, index, txIndex, calls, adds, overlapped>>
    /\ UNCHANGED <<treeOnly, fileVars, conv>>

\* variant: the waiting child is pushed whatever its connect_block returned
ConnectLoopGuardIgnoresError(p, g) ==
    /\ proc[p].pc = "guards"
    /\ g \in proc[p].pend
    /\ LET hash == recs[g.start].ptr.pos
           r    == ResolveOrphanPointers(recs, txIndex, g.start)
           c    == ConnectBlock(r.recs, proc[p].cur.block.end, g.start)
       IN  /\ recs' = c.recs
           /\ calls' = Logged(CallRecord(recs, proc[p].cur.block.end,
                                         g.start, c.result))
           /\ proc' = [proc EXCEPT
                          ![p].todo = Append(@, [block |-> [start |-> g.start,
                                                            end |-> g.end],
                                                 hash |-> hash,
                                                 solved |-> {}]),
                          ![p].pend = @ \ {g},
                          ![p].pc = IF proc[p].pend = {g}
                                    THEN "loop" ELSE "guards"]
           /\ UNCHANGED returned
    /\ UNCHANGED <<index, txIndex, adds, overlapped>>
    /\ UNCHANGED <<treeOnly, fileVars, conv>>

\* connect_block: one waiting child - get_block_hash, revolve_orphan_pointers,
\* spent_tree.connect_block, todo.push
ConnectLoopGuard(p, g) ==
    /\ proc[p].pc = "guards"
    /\ g \in proc[p].pend
    /\ LET hash == recs[g.start].ptr.pos
           r    == ResolveOrphanPointers(recs, txIndex, g.start)
           c    == ConnectBlock(r.recs, proc[p].cur.block.end, g.start)
       IN  IF ~r.ok
           THEN /\ recs' = r.recs
                /\ UNCHANGED calls
                /\ Panic(p)
           ELSE /\ recs' = c.recs
                /\ calls' = Logged(CallRecord(recs, proc[p].cur.block.end,
                                              g.start, c.result))
                /\ IF c.result = "Ok"
                   THEN /\ proc' = [proc EXCEPT
                               ![p].todo = Append(@, [block |-> [start |-> g.start,
                                                                 end |-> g.end],
                                                      hash |-> hash,
                                                      solved |-> {}]),
                               ![p].pend = @ \ {g},
                               ![p].pc = IF proc[p].pend = {g}
                                         THEN "loop" ELSE "guards"]
                        /\ UNCHANGED returned
                   ELSE Panic(p)
    /\ UNCHANGED <<index, txIndex, adds, overlapped>>
    /\ UNCHANGED <<treeOnly, fileVars, conv>>

\* connect_block: the loop over the guards that were not yet solved
ConnectLoopGuards(p) == \E g \in proc[p].pend : ConnectLoopGuard(p, g)

NextAdd ==
    \/ \E p \in Procs, h \in Hashes : AddBlockEnter(p, h)
    \/ \E p \in Procs : AddBlockStore(p)
    \/ \E p \in Procs : AddBlockGetOrSet(p)
    \/ \E p \in Procs : ConnectFirst(p)
    \/ \E p \in Procs : ConnectLoopSet(p)
    \/ \E p \in Procs : ConnectLoopGet(p)
    \/ \E p \in Procs : ConnectLoopGuards(p)

(***************************************************************************)
(* FlatFileSet.  A file has a 16-byte header that holds the write position *)
(* and start_size bytes in all; a FilePtr packs a 16-bit signed file       *)
(* number and a 32-bit position into 64 bits.                              *)
(***************************************************************************)
HeaderSize == 16

\* start_size: room for the largest write after max_size
StartSize == MaxSize + 4 + MaxBufLen

ByteVals == {0, 1}

\* the buffers handed to write
Buffers == UNION {[1..n -> ByteVals] : n \in 1..MaxBufLen}

\* FilePtr::new, FilePtr::file_number, FilePtr::file_pos: the 64-bit value is
\* kept as its two words, hi for bits 32-47 (the file number masked to 16
\* bits) and lo for bits 0-31 (the position, a u32 already)
\* x & 0xFFFF_FFFF, computed on the two 16-bit halves
Mask32(x) == (x % 65536) + 65536 * ((x \div 65536) % 65536)

FilePtrNew(fileno, filepos) == [hi |-> fileno % 65536, lo |-> Mask32(filepos)]

FileNumber(fp) == IF fp.hi >= 32768 THEN fp.hi - 65536 ELSE fp.hi

FilePos(fp) == Mask32(fp.lo)

\* a 32-bit length as the four bytes put into the file, and back
LenBytes(n) == <<n % 256, (n \div 256) % 256, (n \div 65536) % 256,
                 (n \div 16777216) % 256>>

LenOf(cells, pos) ==
    cells[pos] + 256 * cells[pos + 1] + 65536 * cells[pos + 2]
               + 16777216 * cells[pos + 3]

\* the file fs::File::create and set_len leave, with put_size(16) done
FreshFile == [wpos |-> HeaderSize, cells |-> [i \in 0..(StartSize - 1) |-> 0]]

\* put_bytes: the bytes of b at position pos onwards
PutBytes(cells, pos, b) ==
    [i \in DOMAIN cells |->
        IF i >= pos /\ i < pos + Len(b) THEN b[i - pos + 1] ELSE cells[i]]

\* get_bytes: n bytes from position pos
GetBytes(cells, pos, n) == [i \in 1..n |-> cells[pos + i - 1]]

\* find_min_max_filenumbers on the directory
FindMinMax(d) ==
    IF DOMAIN d = {}
    THEN <<0, 0>>
    ELSE <<Min(DOMAIN d), Max(DOMAIN d) + 1>>

\* FlatFileSet::new
NewFlatFileSet(d) ==
    LET mm == FindMinMax(d)
    IN  [first_file |-> mm[1], last_file |-> mm[2],
         maps |-> [i \in 1..(mm[2] - mm[1]) |-> FALSE]]

\* get_flatfile: the index into maps; the Vec is indexed out of its bounds
\* (a panic) when the index is not below its length
FileIdx(f, fileno) == fileno - f.first_file

HasMap(f, fileno) == FileIdx(f, fileno) >= 0 /\ FileIdx(f, fileno) < Len(f.maps)

GetFlatfile(f, fileno) == [f EXCEPT !.maps[FileIdx(f, fileno) + 1] = TRUE]

\* create_next_file: file last_file - 1 is created (truncated when it exists)
CreateNextFile(f, d) ==
    [n \in DOMAIN d \cup {f.last_file - 1} |->
        IF n = f.last_file - 1 THEN FreshFile ELSE d[n]]

\* variant: the rollover extends maps as the creation of the first file does
RolloverPushesMap(f) == [f EXCEPT !.last_file = @ + 1, !.maps = Append(@, FALSE)]

\* write, rollover: last_file += 1
Rollover(f) == [f EXCEPT !.last_file = @ + 1]

(***************************************************************************)
(* FlatFileSet::write(buffer) on the state st = [ff, disk, locked]; the    *)
(* result is ok with the FilePtr, or the state a panic leaves.             *)
(***************************************************************************)
RECURSIVE Write(_, _)
Write(st, buffer) ==
    LET \* step one: if there are no files create one
        f1 == IF st.ff.first_file = st.ff.last_file
              THEN [st.ff EXCEPT !.last_file = @ + 1, !.maps = Append(@, FALSE)]
              ELSE st.ff
        d1 == IF st.ff.first_file = st.ff.last_file
              THEN CreateNextFile(f1, st.disk)
              ELSE st.disk
        fileno == f1.last_file - 1
    IN  IF ~HasMap(f1, fileno)
        THEN [ff |-> f1, disk |-> d1, locked |-> st.locked,
              ok |-> FALSE, ptr |-> FilePtrNew(0, 0)]
        ELSE
        LET f2 == GetFlatfile(f1, fileno)
            l2 == st.locked \cup {fileno}
            write_pos == d1[fileno].wpos
        IN  IF write_pos >= MaxSize
            THEN LET f3 == Rollover(f2)
                     d3 == CreateNextFile(f3, d1)
                     r  == Write([ff |-> f3, disk |-> d3, locked |-> l2], buffer)
                 IN  IF ~r.ok
                     THEN r
                     ELSE [r EXCEPT !.locked = @ \ {fileno}]
            ELSE LET c1 == PutBytes(d1[fileno].cells, write_pos,
                                    LenBytes(Len(buffer)))
                     c2 == PutBytes(c1, write_pos + 4, buffer)
                     new_write_pos == write_pos + 4 + Len(buffer)
                 IN  [ff     |-> f2,
                      disk   |-> [d1 EXCEPT ![fileno] =
                                     [wpos |-> new_write_pos, cells |-> c2]],
                      locked |-> l2 \ {fileno},
                      ok     |-> TRUE,
                      ptr    |-> FilePtrNew(fileno, write_pos)]

\* FlatFileSet::read(pos): ok with the bytes, or a panic
Read(f, d, pos) ==
    LET fileno  == FileNumber(pos)
        filepos == FilePos(pos)
    IN  IF ~HasMap(f, fileno)
        THEN [ok |-> FALSE, bytes |-> <<>>]
        ELSE [ok |-> TRUE,
              bytes |-> GetBytes(d[fileno].cells, filepos + 4,
                                 LenOf(d[fileno].cells, filepos))]

(***************************************************************************)
(* SpecFile: one FlatFileSet on a directory that starts empty.             *)
(***************************************************************************)
NoRead == [call |-> 0, ok |-> TRUE, bytes |-> <<>>]

Writers == 1..NumWriters

\* a writer between calls, its instance made by FlatFileSet::new on the
\* directory without files
NoWrite ==
    [ff |-> NewFlatFileSet(<<>>), pc |-> "idle", buffer |-> <<>>, fileno |-> 0,
     write_pos |-> 0, frames |-> <<>>, held |-> {}, result |-> FilePtrNew(0, 0)]

FileInit ==
    /\ disk = <<>>
    /\ ff = NewFlatFileSet(<<>>)
    /\ locked = {}
    /\ wlog = <<>>
    /\ fstate = "open"
    /\ lastRead = NoRead
    /\ writers = [w \in Writers |-> NoWrite]

\* the file the next write locks first
TailFile == IF ff.first_file = ff.last_file THEN ff.last_file ELSE ff.last_file - 1

FWrite(buffer) ==
    /\ fstate = "open"
    /\ Len(wlog) < MaxWrites
    /\ TailFile \notin locked
    /\ LET r == Write([ff |-> ff, disk |-> disk, locked |-> locked], buffer)
       IN  /\ ff' = r.ff
           /\ disk' = r.disk
           /\ locked' = r.locked
           /\ wlog' = Append(wlog, [buffer |-> buffer, ok |-> r.ok, ptr |-> r.ptr])
           /\ fstate' = IF r.ok THEN "open" ELSE "panicked"
    /\ UNCHANGED <<lastRead, writers>>
    /\ UNCHANGED <<treeVars, addVars, conv>>

\* read of the FilePtr that write call k returned
FRead(k) ==
    /\ fstate = "open"
    /\ k \in DOMAIN wlog
    /\ wlog[k].ok
    /\ lastRead.call # k
    /\ LET b == Read(ff, disk, wlog[k].ptr)
       IN  /\ lastRead' = [call |-> k, ok |-> b.ok, bytes |-> b.bytes]
           /\ IF b.ok
              THEN /\ ff' = GetFlatfile(ff, FileNumber(wlog[k].ptr))
                   /\ UNCHANGED fstate
              ELSE fstate' = "panicked" /\ UNCHANGED ff
    /\ UNCHANGED <<disk, locked, wlog, writers>>
    /\ UNCHANGED <<treeVars, addVars, conv>>

\* the process is started again: FlatFileSet::new on the directory as it is
FReopen ==
    /\ fstate = "panicked"
    /\ ff' = NewFlatFileSet(disk)
    /\ fstate' = "open"
    /\ lastRead' = NoRead
    /\ UNCHANGED <<disk, locked, wlog, writers>>
    /\ UNCHANGED <<treeVars, addVars, conv>>

NextFile ==
    \/ \E b \in Buffers : FWrite(b)
    \/ \E k \in 1..MaxWrites : FRead(k)
    \/ FReopen

(***************************************************************************)
(* SpecWriters: NumWriters FlatFileSet instances on one directory, each    *)
(* running write one file operation at a time.  A writer's record holds    *)
(* its instance (ff), the buffer, the locals fileno and write_pos of the   *)
(* call in progress, the file numbers of the calls around a recursive one  *)
(* (frames) and the locks it has taken (held).                             *)
(***************************************************************************)
InCall(w) == writers[w].pc \notin {"idle", "panicked"}

WritesBegun == Len(wlog) + Cardinality({w \in Writers : InCall(w)})

\* write, step one: if there are no files create one
WBegin(w, buffer) ==
    /\ writers[w].pc = "idle"
    /\ WritesBegun < MaxWrites
    /\ LET f  == writers[w].ff
           f1 == IF f.first_file = f.last_file
                 THEN [f EXCEPT !.last_file = @ + 1, !.maps = Append(@, FALSE)]
                 ELSE f
       IN  /\ writers' = [writers EXCEPT ![w] =
                  [@ EXCEPT !.ff = f1, !.pc = "lock", !.buffer = buffer,
                            !.frames = <<>>]]
           /\ disk' = IF f.first_file = f.last_file
                      THEN CreateNextFile(f1, disk)
                      ELSE disk
    /\ UNCHANGED <<ff, locked, wlog, fstate, lastRead>>
    /\ UNCHANGED <<treeVars, addVars, conv>>

\* fileno = last_file - 1; get_flatfile(fileno).lock(): the call waits while
\* another holder has the lock, and panics when maps has no such index
WLock(w) ==
    /\ writers[w].pc = "lock"
    /\ LET f      == writers[w].ff
           fileno == f.last_file - 1
       IN  IF ~HasMap(f, fileno)
           THEN /\ writers' = [writers EXCEPT ![w].pc = "panicked"]
                /\ wlog' = Append(wlog, [buffer |-> writers[w].buffer, ok |-> FALSE,
                                         ptr |-> FilePtrNew(0, 0), by |-> w])
                /\ UNCHANGED locked
           ELSE /\ fileno \notin locked
                /\ locked' = locked \cup {fileno}
                /\ writers' = [writers EXCEPT ![w] =
                       [@ EXCEPT !.ff = GetFlatfile(f, fileno), !.fileno = fileno,
                                 !.held = @ \cup {fileno}, !.pc = "size"]]
                /\ UNCHANGED wlog
    /\ UNCHANGED <<ff, disk, fstate, lastRead>>
    /\ UNCHANGED <<treeVars, addVars, conv>>

\* write_pos = get_size(), and the test against max_size
WGetSize(w) ==
    /\ writers[w].pc = "size"
    /\ LET write_pos == disk[writers[w].fileno].wpos
       IN  writers' = [writers EXCEPT ![w] =
               [@ EXCEPT !.write_pos = write_pos,
                         !.pc = IF write_pos >= MaxSize THEN "roll" ELSE "len"]]
    /\ UNCHANGED <<ff, disk, locked, wlog, fstate, lastRead>>
    /\ UNCHANGED <<treeVars, addVars, conv>>

\* create another file and call write again, this file kept locked
WRollover(w) ==
    /\ writers[w].pc = "roll"
    /\ LET f3 == Rollover(writers[w].ff)
       IN  /\ writers' = [writers EXCEPT ![w] =
                  [@ EXCEPT !.ff = f3, !.frames = Append(@, writers[w].fileno),
                            !.pc = "lock"]]
           /\ disk' = CreateNextFile(f3, disk)
    /\ UNCHANGED <<ff, locked, wlog, fstate, lastRead>>
    /\ UNCHANGED <<treeVars, addVars, conv>>

\* write length
WPutLen(w) ==
    /\ writers[w].pc = "len"
    /\ disk' = [disk EXCEPT ![writers[w].fileno].cells =
                   PutBytes(@, writers[w].write_pos, LenBytes(Len(writers[w].buffer)))]
    /\ writers' = [writers EXCEPT ![w].pc = "bytes"]
    /\ UNCHANGED <<ff, locked, wlog, fstate, lastRead>>
    /\ UNCHANGED <<treeVars, addVars, conv>>

\* write value
WPutBytes(w) ==
    /\ writers[w].pc = "bytes"
    /\ disk' = [disk EXCEPT ![writers[w].fileno].cells =
                   PutBytes(@, writers[w].write_pos + 4, writers[w].buffer)]
    /\ writers' = [writers EXCEPT ![w].pc = "psize"]
    /\ UNCHANGED <<ff, locked, wlog, fstate, lastRead>>
    /\ UNCHANGED <<treeVars, addVars, conv>>

\* write new write-position; the result is FilePtr::new(fileno, write_pos)
WPutSize(w) ==
    /\ writers[w].pc = "psize"
    /\ disk' = [disk EXCEPT ![writers[w].fileno].wpos =
                   writers[w].write_pos + 4 + Len(writers[w].buffer)]
    /\ writers' = [writers EXCEPT ![w] =
           [@ EXCEPT !.result = FilePtrNew(writers[w].fileno, writers[w].write_pos),
                     !.pc = "unlock"]]
    /\ UNCHANGED <<ff, locked, wlog, fstate, lastRead>>
    /\ UNCHANGED <<treeVars, addVars, conv>>

\* get_flatfile(fileno).unlock() and the return, to the call around this one
\* or to the caller
WUnlock(w) ==
    /\ writers[w].pc = "unlock"
    /\ locked' = locked \ {writers[w].fileno}
    /\ IF writers[w].frames = <<>>
       THEN /\ writers' = [writers EXCEPT ![w] =
                   [@ EXCEPT !.held = @ \ {writers[w].fileno}, !.pc = "idle"]]
            /\ wlog' = Append(wlog, [buffer |-> writers[w].buffer, ok |-> TRUE,
                                     ptr |-> writers[w].result, by |-> w])
       ELSE /\ writers' = [writers EXCEPT ![w] =
                   [@ EXCEPT !.held = @ \ {writers[w].fileno},
                             !.fileno = writers[w].frames[Len(writers[w].frames)],
                             !.frames = SubSeq(@, 1, Len(@) - 1)]]
            /\ UNCHANGED wlog
    /\ UNCHANGED <<ff, disk, fstate, lastRead>>
    /\ UNCHANGED <<treeVars, addVars, conv>>

\* the writer opens the set again between two calls: FlatFileSet::new on the
\* directory as it is
WOpen(w) ==
    /\ writers[w].pc = "idle"
    /\ writers[w].ff # NewFlatFileSet(disk)
    /\ writers' = [writers EXCEPT ![w].ff = NewFlatFileSet(disk)]
    /\ UNCHANGED <<ff, disk, locked, wlog, fstate, lastRead>>
    /\ UNCHANGED <<treeVars, addVars, conv>>

\* the writer that panicked is started again; whether the locks it had
\* taken outlive it depends on the lock of FlatFile: both outcomes
WRestart(w, keep) ==
    /\ writers[w].pc = "panicked"
    /\ writers' = [writers EXCEPT ![w] =
           [@ EXCEPT !.ff = NewFlatFileSet(disk), !.pc = "idle",
                     !.frames = <<>>, !.held = {}]]
    /\ locked' = IF keep THEN locked ELSE locked \ writers[w].held
    /\ UNCHANGED <<ff, disk, wlog, fstate, lastRead>>
    /\ UNCHANGED <<treeVars, addVars, conv>>

NextWriters ==
    \/ \E w \in Writers, b \in Buffers : WBegin(w, b)
    \/ \E w \in Writers : WLock(w)
    \/ \E w \in Writers : WGetSize(w)
    \/ \E w \in Writers : WRollover(w)
    \/ \E w \in Writers : WPutLen(w)
    \/ \E w \in Writers : WPutBytes(w)
    \/ \E w \in Writers : WPutSize(w)
    \/ \E w \in Writers : WUnlock(w)
    \/ \E w \in Writers : WOpen(w)
    \/ \E w \in Writers, keep \in BOOLEAN : WRestart(w, keep)


(***************************************************************************)
(* File names.  A name is a sequence of characters: the prefix, then four  *)
(* hex digits of the file number.                                          *)
(***************************************************************************)
Prefix == <<"t", "x", "-">>

LowerHex == <<"0", "1", "2", "3", "4", "5", "6", "7",
              "8", "9", "a", "b", "c", "d", "e", "f">>
UpperHex == <<"0", "1", "2", "3", "4", "5", "6", "7",
              "8", "9", "A", "B", "C", "D", "E", "F">>

\* a value as i16
AsI16(x) == IF x % 65536 >= 32768 THEN (x % 65536) - 65536 ELSE x % 65536

\* format!("{:02x}", v) for v in 0..255
Hex2(v) == <<LowerHex[(v \div 16) + 1], LowerHex[(v % 16) + 1]>>

\* fileno_to_filename: prefix, (fileno >> 8) & 0xFF, fileno & 0xFF
FilenoToFilename(prefix, fileno) ==
    prefix \o Hex2(((fileno % 65536) \div 256) % 256) \o Hex2(fileno % 256)

\* char_to_hex: the digit's value, or -1 for the error
CharToHex(c) ==
    IF \E i \in 1..16 : LowerHex[i] = c
    THEN (CHOOSE i \in 1..16 : LowerHex[i] = c) - 1
    ELSE IF \E i \in 1..16 : UpperHex[i] = c
    THEN (CHOOSE i \in 1..16 : UpperHex[i] = c) - 1
    ELSE -1

\* variant: the parsed number is not narrowed to 16 signed bits
FilenameToFilenoUnsigned(prefix, name) ==
    LET p == Len(prefix)
        d == [i \in 1..4 |-> CharToHex(name[p + i])]
    IN  [ok |-> TRUE, fileno |-> d[1] * 4096 + d[2] * 256 + d[3] * 16 + d[4]]

\* filename_to_fileno: ok with the number, or the parse error
FilenameToFileno(prefix, name) ==
    LET p == Len(prefix)
    IN  IF Len(name) < p \/ SubSeq(name, 1, p) # prefix
        THEN [ok |-> FALSE, fileno |-> 0]
        ELSE IF Len(name) # p + 4
        THEN [ok |-> FALSE, fileno |-> 0]
        ELSE LET d == [i \in 1..4 |-> CharToHex(name[p + i])]
             IN  IF \E i \in 1..4 : d[i] = -1
                 THEN [ok |-> FALSE, fileno |-> 0]
                 ELSE [ok |-> TRUE,
                       fileno |-> AsI16(d[1] * 4096 + d[2] * 256 + d[3] * 16 + d[4])]

(***************************************************************************)
(* SpecNames: a file number and a position are chosen, turned into a name  *)
(* and a FilePtr, and read back.                                           *)
(***************************************************************************)
FileNos == -32768..32767

\* positions: the ends of the range and the first write position
Positions == {0, HeaderSize, 2147483647}

NoConv == [stage |-> "idle", n |-> 0, pos |-> 0, name |-> <<>>,
           fp |-> FilePtrNew(0, 0), parsed |-> [ok |-> FALSE, fileno |-> 0],
           number |-> 0, filepos |-> 0]

ConvInit == conv = NoConv

ConvPick(n, pos) ==
    /\ conv.stage = "idle"
    /\ conv' = [NoConv EXCEPT !.stage = "picked", !.n = n, !.pos = pos]
    /\ UNCHANGED <<treeVars, addVars, fileVars>>

\* fileno_to_filename and FilePtr::new
ConvMake ==
    /\ conv.stage = "picked"
    /\ conv' = [conv EXCEPT !.stage = "made",
                            !.name = FilenoToFilename(Prefix, conv.n),
                            !.fp = FilePtrNew(conv.n, conv.pos)]
    /\ UNCHANGED <<treeVars, addVars, fileVars>>

\* filename_to_fileno, file_number and file_pos
ConvBack ==
    /\ conv.stage = "made"
    /\ conv' = [conv EXCEPT !.stage = "back",
                            !.parsed = FilenameToFileno(Prefix, conv.name),
                            !.number = FileNumber(conv.fp),
                            !.filepos = FilePos(conv.fp)]
    /\ UNCHANGED <<treeVars, addVars, fileVars>>

NextNames ==
    \/ conv.stage = "idle" /\ \E n \in FileNos, pos \in Positions : ConvPick(n, pos)
    \/ ConvMake
    \/ ConvBack

vars == <<treeVars, addVars, fileVars, conv>>

Init == TreeInit /\ AddInit /\ FileInit /\ ConvInit

SpecTree == Init /\ [][NextTree]_vars

SpecAdd == Init /\ [][NextAdd]_vars

\* a call that has been entered keeps running: every caller takes its next
\* step; no block has to arrive
\* the calls of the liveness specification: MaxLiveAdds of them in all
MaxLiveAdds == 3

NextAddLive ==
    \/ /\ SumAdds(Hashes) < MaxLiveAdds
       /\ \E p \in Procs, h \in Hashes : AddBlockEnter(p, h)
    \/ \E p \in Procs : AddBlockStore(p)
    \/ \E p \in Procs : AddBlockGetOrSet(p)
    \/ \E p \in Procs : ConnectFirst(p)
    \/ \E p \in Procs : ConnectLoopSet(p)
    \/ \E p \in Procs : ConnectLoopGet(p)
    \/ \E p \in Procs : ConnectLoopGuards(p)

\* weak fairness of every step of the call of p.  For the two steps that scan,
\* weak fairness is written out with the state predicate that is equivalent
\* to their being enabled (RunningCallCanStep).
Fair(p) ==
    /\ WF_vars(AddBlockStore(p))
    /\ WF_vars(AddBlockGetOrSet(p))
    /\ WF_vars(ConnectLoopSet(p))
    /\ WF_vars(ConnectLoopGet(p))
    /\ ([]<>(proc[p].pc # "connect") \/ []<><<ConnectFirst(p)>>_vars)
    /\ ([]<>(proc[p].pc # "guards") \/ []<><<ConnectLoopGuards(p)>>_vars)

SpecAddLive == Init /\ [][NextAddLive]_vars /\ \A p \in Procs : Fair(p)

SpecOrphan == Init /\ [][NextOrphan]_vars

SpecFile == Init /\ [][NextFile]_vars

SpecWriters == Init /\ [][NextWriters]_vars

SpecNames == Init /\ [][NextNames]_vars

(***************************************************************************)
(* Reference definitions for the spent-tree claims.                        *)
(***************************************************************************)
\* the records the scan of record i of the block at start has to inspect, in
\* order: the block's own records before i, last first, down to its guard,
\* then the branch of the parent from prevEnd back to the branch root
ExpectedBranch(rs, prevEnd, start, i) ==
    [n \in 1..(i - start) |-> i - n] \o Chain(rs, prevEnd, Len(rs))

\* what the scan for output pointer o has to answer on that sequence
Verdict(rs, seq, o) ==
    LET hitsT == {n \in DOMAIN seq : rs[seq[n]].ptr = TxPtr(o.pos)}
        hitsS == {n \in DOMAIN seq : rs[seq[n]].ptr = o}
    IN  IF hitsT = {} /\ hitsS = {} THEN "OutputNotFound"
        ELSE IF hitsS = {} THEN "Ok"
        ELSE IF hitsT = {} THEN "OutputAlreadySpent"
        ELSE IF Min(hitsT) < Min(hitsS) THEN "Ok" ELSE "OutputAlreadySpent"

OutputRecords(rs, start) ==
    {i \in (start + 1)..(start + BlockSize(rs, start)) : rs[i].ptr.kind = "out"}

ExpectedVerdict(rs, prevEnd, start, i) ==
    Verdict(rs, ExpectedBranch(rs, prevEnd, start, i), rs[i].ptr)

\* every record that is neither of the block at start nor on the branch of
\* prevEnd is replaced by an empty, unlinked record
Scrub(rs, prevEnd, start) ==
    LET keep == (start..(start + BlockSize(rs, start) + 1))
                    \cup Range(Chain(rs, prevEnd, Len(rs)))
    IN  [i \in DOMAIN rs |-> IF i \in keep THEN rs[i] ELSE NewRecord(NullPtr)]

IsConnectStep == last'.op = "connect"

(***************************************************************************)
(* C1: connect_block returns Ok exactly when, for every output record of   *)
(* the block, the transaction record is met on the branch before any       *)
(* record carrying the same output and before the branch root; when it     *)
(* returns an error, some output record of the block meets that error      *)
(* (OutputAlreadySpent: the same output first; OutputNotFound: the root).  *)
(***************************************************************************)
C1_ConnectDecides ==
    [][IsConnectStep =>
        LET pe    == TEnd(last'.parent)
            st    == TStart(last'.child)
            outs  == OutputRecords(recs, st)
            bad   == {i \in outs : ExpectedVerdict(recs, pe, st, i) # "Ok"}
        IN  /\ (last'.result = "Ok") <=> (bad = {})
            /\ last'.result # "Ok" =>
                 \E i \in bad : ExpectedVerdict(recs, pe, st, i) = last'.result
      ]_vars

\* block 10 was refused on the branch 1 <- 5 <- 7, where (2;1) is spent
C1_Witness ==
    /\ conn[4].result = "Ok"
    /\ last.op = "connect" /\ last.parent = 4 /\ last.child = 5
    /\ last.result = "OutputAlreadySpent"

(***************************************************************************)
(* C3: branches are validated independently.  The outcome of connect_block *)
(* is the one it has when every record off the block's branch is blanked   *)
(* out, and a block that spends the same outputs as a sibling that is      *)
(* connected to the same parent, with its spends valid on the parent's     *)
(* branch as it stands, is accepted as well.                               *)
(***************************************************************************)
SameSpends(a, b) ==
    {q \in Range(MenuBlock(a).ptrs) : q.kind = "out"}
        = {q \in Range(MenuBlock(b).ptrs) : q.kind = "out"}

C3_BranchIndependence ==
    [][IsConnectStep =>
        LET p == last'.parent
            b == last'.child
        IN  /\ last'.result
                 = ConnectBlock(Scrub(recs, TEnd(p), TStart(b)),
                                TEnd(p), TStart(b)).result
            /\ \A s \in Menu \ {b} :
                 (/\ SameSpends(s, b)
                  /\ conn[s] = [parent |-> p, result |-> "Ok"]
                  /\ recs[TStart(s)].previous = TEnd(p)
                  /\ \A i \in OutputRecords(recs, TStart(s)) :
                        ExpectedVerdict(recs, TEnd(p), TStart(s), i) = "Ok")
                     => last'.result = "Ok"
      ]_vars

\* blocks 3 and 5 both spend (2;0) and both are connected to block 1
C3_Witness ==
    /\ conn[2] = [parent |-> 1, result |-> "Ok"]
    /\ conn[3] = [parent |-> 1, result |-> "Ok"]
    /\ recs[TStart(2)].previous = TEnd(1)
    /\ recs[TStart(3)].previous = TEnd(1)

(***************************************************************************)
(* C7: once connect_block(p1, b) has failed, a later connect_block(p2, b)  *)
(* onto another parent returns what it returns in the arena in which the   *)
(* failed call was never made.                                             *)
(***************************************************************************)
C7_FailedAttemptLeavesNoTrace ==
    [][(/\ IsConnectStep
        /\ track # NoTrack
        /\ last'.child = track.child
        /\ last'.parent # track.parent) =>
        last'.result
            = ConnectBlock(shadow, TEnd(last'.parent), TStart(last'.child)).result
      ]_vars

\* block 7 was refused on one parent and accepted on another afterwards
C7_Witness ==
    /\ track # NoTrack
    /\ last.op = "connect" /\ last.child = track.child
    /\ last.parent # track.parent
    /\ last.result = "Ok"

(***************************************************************************)
(* What the block-hash index and the call log say about a block.           *)
(***************************************************************************)
Concrete(h) == {e \in index[h] : ~e.guard}
Guards(h)   == {e \in index[h] : e.guard}

Quiescent == \A p \in Procs : ~Active(p)

\* the blocks that wait at hash h as guards
Waiting(h) == {recs[g.start].ptr.pos : g \in Guards(h)}

RECURSIVE SumCalls(_)
SumCalls(S) == IF S = {} THEN 0
               ELSE LET c == CHOOSE x \in S : TRUE IN calls[c] + SumCalls(S \ {c})

\* SpentTree::connect_block calls made for child onto parent
CallCount(parent, child) ==
    SumCalls({c \in DOMAIN calls : c.parent = parent /\ c.child = child})

LinearChain == {1, 2, 3, 5}
SpendInvalid == {4}

(***************************************************************************)
(* C2: when the blocks of the linear chain 1 <- 2 <- 3 <- 5 have each been *)
(* added once, one call at a time and in whatever order, every one of them *)
(* is concrete, no guard entry is left, and SpentTree::connect_block has   *)
(* been called exactly once for each (parent, child) pair of the chain,    *)
(* with Ok, and never otherwise.                                           *)
(***************************************************************************)
C2_LinearChain ==
    (/\ Quiescent /\ ~overlapped
     /\ \A h \in LinearChain : adds[h] = 1
     /\ \A h \in Hashes \ LinearChain : adds[h] = 0) =>
        /\ \A h \in LinearChain : Cardinality(Concrete(h)) = 1
        /\ \A h \in Hashes : Guards(h) = {}
        /\ \A h \in LinearChain \ {Genesis} : CallCount(BlockDef(h).prev, h) = 1
        /\ SumCalls(DOMAIN calls) = Cardinality(LinearChain) - 1
        /\ \A c \in DOMAIN calls : c.result = "Ok"

\* the chain is complete although block 5 came before 3, 3 before 2 and 2
\* before the genesis block
C2_Witness ==
    /\ Quiescent /\ ~overlapped
    /\ \A h \in LinearChain : adds[h] = 1 /\ Concrete(h) # {}
    /\ \A h \in Hashes \ LinearChain : adds[h] = 0
    /\ \E e5 \in Concrete(5), e3 \in Concrete(3), e2 \in Concrete(2),
          e1 \in Concrete(1) :
            e5.start < e3.start /\ e3.start < e2.start /\ e2.start < e1.start

(***************************************************************************)
(* C4: a concrete entry of a non-genesis hash points at records for which  *)
(* SpentTree::connect_block has returned Ok, and the step in which         *)
(* SpentTree::connect_block returns an error leaves the index as it was.   *)
(***************************************************************************)
ConcreteOnlyAfterOk ==
    \A h \in Hashes \ {Genesis} : \A e \in Concrete(h) :
        \E c \in DOMAIN calls :
            c.child = h /\ c.start = e.start /\ c.result = "Ok"

FailedCallLogged(old, new) ==
    \E c \in DOMAIN new :
        /\ c.result # "Ok"
        /\ (c \notin DOMAIN old \/ old[c] < new[c])

C4_ConcreteOnlyAfterOk ==
    [][/\ ConcreteOnlyAfterOk'
       /\ FailedCallLogged(calls, calls') => index' = index]_vars

\* block 4 waited, failed its spend check when its parent came, and has no
\* concrete entry, while block 3 waited too and has one
C4_Witness ==
    /\ \E c \in DOMAIN calls : c.child = 4 /\ c.result # "Ok"
    /\ Concrete(4) = {}
    /\ Concrete(3) # {}
    /\ \E c \in DOMAIN calls : c.child = 3 /\ c.result = "Ok"

OwnConnectionOk(h) ==
    \E c \in DOMAIN calls : c.child = h /\ c.result = "Ok"

C6_OnlyFailingChildAborted ==
    (Quiescent /\ ~overlapped) =>
        \A h \in Hashes :
            (/\ OwnConnectionOk(h)
             /\ \E c \in DOMAIN calls : c.parent = h /\ c.result # "Ok") =>
                /\ Concrete(h) # {}
                /\ \A k \in Hashes \ SpendInvalid :
                      (BlockDef(k).prev = h /\ adds[k] > 0) => Concrete(k) # {}

(***************************************************************************)
(* C8: while a second add_block call for a spend-valid block is under way, *)
(* the calls being made one at a time, the index is what it was when the   *)
(* call began and no record has been appended.                             *)
(***************************************************************************)
C8_SecondAddIsNoOp ==
    \A p \in Procs :
        (Active(p) /\ proc[p].second /\ ~overlapped
                   /\ proc[p].blk \notin SpendInvalid) =>
            /\ index = proc[p].snap[1]
            /\ Len(recs) = proc[p].snap[2]

(***************************************************************************)
(* C9: once add_block has been called, once each, for a set of spend-valid *)
(* blocks and every call is over, a block of the set is concrete and       *)
(* linked to its parent's end record exactly when all its ancestors are in *)
(* the set, and waits as a guard at its parent's hash otherwise - whatever *)
(* the order and the interleaving of the calls.                            *)
(***************************************************************************)
RECURSIVE Connectable(_)
Connectable(h) ==
    /\ adds[h] > 0
    /\ (is_genesis_block(h) \/ Connectable(BlockDef(h).prev))

C9_EndStateOrderFree ==
    (/\ Quiescent
     /\ \A h \in Hashes : adds[h] <= 1
     /\ \A h \in SpendInvalid : adds[h] = 0) =>
        \A h \in Hashes :
            IF Connectable(h)
            THEN /\ Cardinality(Concrete(h)) = 1
                 /\ \A e \in Concrete(h) :
                       is_genesis_block(h) \/
                       \E pe \in Concrete(BlockDef(h).prev) :
                           recs[e.start].previous = pe.end
                 /\ \A k \in Hashes : h \notin Waiting(k)
            ELSE /\ Concrete(h) = {}
                 /\ adds[h] > 0 => h \in Waiting(BlockDef(h).prev)
                 /\ adds[h] = 0 => \A k \in Hashes : h \notin Waiting(k)

\* the same, for calls made one at a time
SequentialEndState == ~overlapped => C9_EndStateOrderFree

(***************************************************************************)
(* C10: every write call made so far has returned a FilePtr, and read of   *)
(* that FilePtr gives exactly the bytes that were passed to the call,      *)
(* whatever was written afterwards and whether or not a call rolled over   *)
(* into a new file.                                                        *)
(***************************************************************************)
C10_WriteReadRoundTrip ==
    \A k \in DOMAIN wlog :
        /\ wlog[k].ok
        /\ fstate = "open" =>
              Read(ff, disk, wlog[k].ptr) = [ok |-> TRUE, bytes |-> wlog[k].buffer]

\* the same for the calls that did return
RoundTripOfReturned ==
    fstate = "open" =>
        \A k \in DOMAIN wlog :
            wlog[k].ok =>
                Read(ff, disk, wlog[k].ptr) = [ok |-> TRUE, bytes |-> wlog[k].buffer]

(***************************************************************************)
(* C11: for every 16-bit signed file number n, fileno_to_filename gives    *)
(* the prefix followed by the four lowercase hex digits of n's two's       *)
(* complement (0000 for 0, ffff for -1, fffe for -2, 8000 for -32768) and  *)
(* filename_to_fileno gives n back; FilePtr::new(n, pos) gives n back as   *)
(* file_number and pos as file_pos.                                        *)
(***************************************************************************)
\* the value of a lowercase hex digit, by its place in 0..9 a..f
DigitValue(c) == (CHOOSE i \in 1..16 : LowerHex[i] = c) - 1

IsTwosComplementName(name, n) ==
    LET p == Len(Prefix)
    IN  /\ Len(name) = p + 4
        /\ SubSeq(name, 1, p) = Prefix
        /\ \A i \in 1..4 : \E j \in 1..16 : LowerHex[j] = name[p + i]
        /\ DigitValue(name[p + 1]) * 4096 + DigitValue(name[p + 2]) * 256
             + DigitValue(name[p + 3]) * 16 + DigitValue(name[p + 4])
           = (IF n < 0 THEN n + 65536 ELSE n)

C11_NamesAndPointersRoundTrip ==
    /\ conv.stage \in {"made", "back"} =>
          /\ IsTwosComplementName(conv.name, conv.n)
          /\ conv.n = 0      => conv.name = Prefix \o <<"0", "0", "0", "0">>
          /\ conv.n = -1     => conv.name = Prefix \o <<"f", "f", "f", "f">>
          /\ conv.n = -2     => conv.name = Prefix \o <<"f", "f", "f", "e">>
          /\ conv.n = -32768 => conv.name = Prefix \o <<"8", "0", "0", "0">>
    /\ conv.stage = "back" =>
          /\ conv.parsed = [ok |-> TRUE, fileno |-> conv.n]
          /\ conv.number = conv.n
          /\ conv.filepos = conv.pos

\* the smallest file number with the largest position has made the round trip
C11_Witness ==
    /\ conv.stage = "back"
    /\ conv.n = -32768 /\ conv.pos = 2147483647
    /\ conv.parsed.ok /\ conv.parsed.fileno = -32768
    /\ conv.number = -32768

(***************************************************************************)
(* C12: a connect_block call made on the pair that the call just before it *)
(* connected returns Ok again and leaves the content pointer and the       *)
(* previous link of every record as they were.                             *)
(***************************************************************************)
C12_ReconnectIsIdempotent ==
    [][(IsConnectStep /\ last'.again /\ last.result = "Ok") =>
        /\ last'.result = "Ok"
        /\ Len(recs') = Len(recs)
        /\ \A i \in DOMAIN recs :
              /\ recs'[i].ptr = recs[i].ptr
              /\ recs'[i].previous = recs[i].previous
      ]_vars

\* block 7 was connected to block 5 twice in a row
C12_Witness ==
    /\ last.op = "connect" /\ last.again
    /\ last.parent = 3 /\ last.child = 4
    /\ last.result = "Ok"

(***************************************************************************)
(* C13: in every scan that a connect_block call runs, each step that       *)
(* follows a skip entry instead of previous leads to a record that is      *)
(* reached from the step's origin by following previous links, whatever    *)
(* parent the block was connected to when the skip entry was written.      *)
(***************************************************************************)
\* the arena as the scans of the call see it: the links the call has made,
\* the skip entries it found
ScanArena(before, after) ==
    [i \in DOMAIN before |-> [after[i] EXCEPT !.skips = before[i].skips]]

\* the steps of the scan of record i that did not follow previous
SkipSteps(rs, i) ==
    LET path == SeekPath(rs, i - 1, rs[i].ptr.pos, rs[i].ptr.idx, Len(rs))
    IN  {<<path[n], path[n + 1]>> : n \in {m \in 1..(Len(path) - 1) :
                                            path[m + 1] # rs[path[m]].previous}}

\* the records the scan of record i visits that carry a skip entry whose
\* target is not on their branch
StaleSkipsMet(rs, i) ==
    LET path == SeekPath(rs, i - 1, rs[i].ptr.pos, rs[i].ptr.idx, Len(rs))
    IN  {c \in Range(path) :
            \E d \in Range(rs[c].skips) :
                d >= 1 /\ c - d \notin Range(Chain(rs, c, Len(rs)))}

Unskipped(rs) == [i \in DOMAIN rs |-> [rs[i] EXCEPT !.skips = UnsetSkips]]

FailingRecords(rs, prevEnd, start) ==
    {i \in OutputRecords(rs, start) : ExpectedVerdict(rs, prevEnd, start, i) # "Ok"}

C15_LowestFailingRecordWins ==
    [][(IsConnectStep /\ last'.result # "Ok") =>
        LET pe  == TEnd(last'.parent)
            st  == TStart(last'.child)
            bad == FailingRecords(recs, pe, st)
        IN  /\ bad # {}
            /\ last'.result = ExpectedVerdict(recs, pe, st, Min(bad))
      ]_vars

\* the last call failed on a block with two failing records whose errors differ
C15_Witness ==
    /\ last.op = "connect" /\ last.result # "Ok"
    /\ LET pe  == TEnd(last.parent)
           st  == TStart(last.child)
           bad == FailingRecords(recs, pe, st)
       IN  \E i, j \in bad :
              /\ i < j
              /\ ExpectedVerdict(recs, pe, st, i) # ExpectedVerdict(recs, pe, st, j)

(***************************************************************************)
(* C16: after connect_block(parent.end, child.start) has returned Ok, the  *)
(* previous links from the child's end record lead through the child's     *)
(* records in reverse storage order, the end blockheader first, then the   *)
(* transaction and output records from last to first, then the child's     *)
(* guard, and from the guard to the parent's end blockheader.              *)
(***************************************************************************)
\* the content pointers of a stored menu block in reverse storage order
ReverseContent(b) ==
    LET blk == MenuBlock(b)
        n   == Len(blk.ptrs)
    IN  <<BlockHdr(blk.hdr)>> \o [k \in 1..n |-> blk.ptrs[n + 1 - k]]
                              \o <<GuardHdr(blk.hdr)>>

C16_WalkFromChildEnd ==
    [][(IsConnectStep /\ last'.result = "Ok") =>
        LET c    == last'.child
            n    == Len(MenuBlock(c).ptrs)
            walk == Chain(recs', TEnd(c), n + 3)
        IN  /\ Len(walk) = n + 3
            /\ \A k \in 1..(n + 2) : walk[k] = TEnd(c) + 1 - k
            /\ [k \in 1..(n + 2) |-> recs'[walk[k]].ptr] = ReverseContent(c)
            /\ walk[n + 3] = TEnd(last'.parent)
            /\ recs'[walk[n + 3]].ptr = BlockHdr(MenuBlock(last'.parent).hdr)
      ]_vars

\* the fourth block of the menu (records 12..17) is connected to the second
\* (records 4..7), which is not the block stored right before it
C16_Witness ==
    /\ last.op = "connect" /\ last.result = "Ok"
    /\ last.child = 4 /\ last.parent = 2
    /\ Chain(recs, TEnd(4), 7) = <<17, 16, 15, 14, 13, 12, 7>>

(***************************************************************************)
(* C17: no waiting child is lost.  Once every add_block call is over, a     *)
(* spend-valid block whose add_block call has returned is bound when its   *)
(* parent is bound, and also when its parent's own connection returned Ok  *)
(* and no block connected onto that parent was refused; this also when the *)
(* child placed its guard while the parent's call was under way.  A hash   *)
(* that is bound holds no guard entry.                                     *)
(***************************************************************************)
Bound(h) == Concrete(h) # {}

\* no SpentTree::connect_block call onto h has returned an error
NoChildRefused(h) == ~\E c \in DOMAIN calls : c.parent = h /\ c.result # "Ok"

IsCallBy(p) == calls' # calls /\ proc'[p] # proc[p]

\* the parent block the call of p's next step is made with
ParentOfCall(p) ==
    IF proc[p].pc = "connect" THEN proc[p].prev ELSE proc[p].cur.block

\* the block whose records begin at start is genesis or has been connected
Validated(start) ==
    \/ is_genesis_block(recs[start].ptr.pos)
    \/ \E c \in DOMAIN calls : c.start = start /\ c.result = "Ok"

\* the guard records on the branch that ends at record end
GuardsOnBranch(end) ==
    {i \in Range(Chain(recs, end, Len(recs))) : recs[i].ptr.kind = "guard"}

C18_ParentValidatedBeforeCall ==
    [][\A p \in Procs : IsCallBy(p) =>
          /\ Validated(ParentOfCall(p).start)
          /\ \A i \in GuardsOnBranch(ParentOfCall(p).end) : Validated(i)
      ]_vars

\* block 5 has been connected onto block 3 by the call that had connected
\* block 3, found waiting, onto block 2
C18_Witness ==
    /\ \E c \in DOMAIN calls : c.parent = 3 /\ c.child = 5 /\ c.result = "Ok"
    /\ \E p \in Procs :
          /\ proc[p].blk = 2 /\ Active(p)
          /\ \E n \in DOMAIN proc[p].todo : proc[p].todo[n].hash = 5

(***************************************************************************)
(* C19: in every step in which add_block calls SpentTree::connect_block,   *)
(* and with it the spend scan of the child, the hash of the parent passed  *)
(* to the call has a concrete entry in the block-hash index.               *)
(***************************************************************************)
C19_ScanAfterParentConcrete ==
    [][\A p \in Procs :
          IsCallBy(p) => Bound(recs[ParentOfCall(p).start].ptr.pos)
      ]_vars

\* on the direct path, where the parent comes from get_or_set, it is bound
DirectPathParentBound ==
    [][\A p \in Procs :
          (IsCallBy(p) /\ proc[p].pc = "connect") =>
              Bound(recs[ParentOfCall(p).start].ptr.pos)
      ]_vars

(***************************************************************************)
(* C20: in every reachable state, also while add_block calls are under     *)
(* way, a hash other than the genesis hash that has a concrete entry has a *)
(* parent hash that has a concrete entry.                                  *)
(***************************************************************************)
C20_ConcreteParentConcrete ==
    \A h \in Hashes \ {Genesis} : Bound(h) => Bound(BlockDef(h).prev)

\* it holds whenever no call is running and the calls did not overlap
ParentConcreteAfterSequentialAdds ==
    (Quiescent /\ ~overlapped) => C20_ConcreteParentConcrete

(***************************************************************************)
(* C21: a call that has reached the connection loop gets to the end of it: *)
(* whatever blocks and guards are stored, and whether or not more blocks   *)
(* arrive, the todo stack becomes empty and add_block returns, and the     *)
(* block it was called with is bound then.                                 *)
(***************************************************************************)
InLoop(p) == proc[p].pc \in {"loop", "get", "guards"}

\* the call has returned and the block it was made with is bound
ReturnedBound(p) ==
    /\ proc[p].pc = "idle"
    /\ proc[p].blk \in Hashes
    /\ Bound(proc[p].blk)

\* a running call has a next step: the loop is entered with a connection on
\* todo, the guard loop with a guard left
RunningCallCanStep ==
    \A p \in Procs :
        /\ proc[p].pc = "loop" => proc[p].todo # <<>>
        /\ proc[p].pc = "guards" => proc[p].pend # {}

C21_LoopTerminates ==
    \A p \in Procs : InLoop(p) ~> ReturnedBound(p)

\* the loop always ends, by a return or by a panic
LoopEnds ==
    \A p \in Procs : InLoop(p) ~> (proc[p].pc \in {"idle", "panicked"})

\* it ends by a return, the block bound, when no connection is refused
LoopReturnsUnlessRefused ==
    \A p \in Procs :
        InLoop(p) ~> \/ ReturnedBound(p)
                     \/ \E c \in DOMAIN calls : c.result # "Ok"

(***************************************************************************)
(* C22: in every step in which add_block calls SpentTree::connect_block,   *)
(* on the direct path and for a waiting child alike, no record of the      *)
(* block that is scanned has a null content pointer.                       *)
(***************************************************************************)
\* the SpentTree::connect_block calls the step makes
NewCalls ==
    {c \in DOMAIN calls' : c \notin DOMAIN calls \/ calls'[c] > calls[c]}

\* the records between the guard at start and the block's end record
BlockRecords(rs, start) == (start + 1)..(start + BlockSize(rs, start))

NullRecords(rs, start) == {i \in BlockRecords(rs, start) : rs[i].ptr = NullPtr}

C22_NoNullRecordScanned ==
    [][\A c \in NewCalls : NullRecords(recs', c.start) = {}]_vars

\* it holds for the waiting children, which the loop resolves first
WaitingChildResolved ==
    [][\A p \in Procs : (IsCallBy(p) /\ proc[p].pc = "guards") =>
          \A c \in NewCalls : NullRecords(recs', c.start) = {}
      ]_vars

(***************************************************************************)
(* C23: a revolve_orphan_pointers call that finds every transaction it     *)
(* looks up gives each null record of the block the output pointer made of *)
(* the previous transaction and output index of the input at the record's  *)
(* position after the nearest transaction record before it, resolved and   *)
(* null records both counted; it leaves the content pointer of every other *)
(* record of the arena, and every link, as it was.                         *)
(***************************************************************************)
\* the nearest transaction record before record i
LastTxBefore(rs, i) == Max({j \in 1..(i - 1) : rs[j].ptr.kind = "tx"})

\* the output pointer of the input that record i stands for
InputPointer(rs, i) ==
    LET j   == LastTxBefore(rs, i)
        inp == TxInputs(rs[j].ptr.pos)[i - j]
    IN  OutPtr(inp[1], inp[2])

IsResolveStep == last'.op = "resolve"

C23_ResolveFillsNullRecords ==
    [][(IsResolveStep /\ last'.result = "Ok") =>
        LET start == OStart(last'.child)
            block == BlockRecords(recs, start)
        IN  /\ Len(recs') = Len(recs)
            /\ \A i \in DOMAIN recs :
                  /\ recs'[i].previous = recs[i].previous
                  /\ recs'[i].skips = recs[i].skips
                  /\ recs'[i].ptr =
                        IF i \in block /\ recs[i].ptr = NullPtr
                        THEN InputPointer(recs, i)
                        ELSE recs[i].ptr
      ]_vars

\* block 8 was stored when transaction 61 was known and transaction 60 was
\* not: of the three input records of transaction 70 the first and the third
\* were null, and the last call has resolved them
C23_Witness ==
    /\ last.op = "resolve" /\ last.result = "Ok" /\ last.child = 8
    /\ LET st == OStart(8)
       IN  /\ shadow[st + 2].ptr = NullPtr
           /\ shadow[st + 3].ptr = OutPtr(61, 1)
           /\ shadow[st + 4].ptr = NullPtr
           /\ recs[st + 2].ptr = OutPtr(60, 0)
           /\ recs[st + 4].ptr = OutPtr(60, 2)

(***************************************************************************)
(* C24: in every step of store_block, revolve_orphan_pointers, find_end    *)
(* and connect_block, no record is removed, and the content pointer of a   *)
(* record changes only in a revolve_orphan_pointers step and only from     *)
(* null to an output pointer - so at most once.                            *)
(***************************************************************************)
C24_ContentPointerWrittenOnce ==
    [][/\ Len(recs') >= Len(recs)
       /\ \A i \in DOMAIN recs :
             recs'[i].ptr # recs[i].ptr =>
                 /\ IsResolveStep
                 /\ recs[i].ptr = NullPtr
                 /\ recs'[i].ptr.kind = "out"
      ]_vars

\* block 8, stored before its ancestors and so with null records, has been
\* resolved and then connected with Ok
C24_Witness ==
    /\ last.op = "connect" /\ last.result = "Ok" /\ last.child = 8
    /\ OStored(6) /\ OStart(8) < OStart(6)
    /\ NullRecords(recs, OStart(8)) = {}

(***************************************************************************)
(* C25: a connect_block call that returns a spending error leaves the      *)
(* previous field of the block's start guard as it was before the call.    *)
(***************************************************************************)
C25_FailedConnectLeavesGuard ==
    [][(IsConnectStep /\ last'.result # "Ok") =>
          recs'[TStart(last'.child)].previous = recs[TStart(last'.child)].previous
      ]_vars

\* what the failed call does leave as it was: the block's end record
FailedConnectLeavesEnd ==
    [][(IsConnectStep /\ last'.result # "Ok") =>
          recs'[TEnd(last'.child)].previous = recs[TEnd(last'.child)].previous
      ]_vars

(***************************************************************************)
(* C26: store_block appends len(ptrs) + 2 records in one run - the guard   *)
(* of the header, unlinked, one record per pointer in the given order, the *)
(* blockheader - and returns the position of the guard as start and start  *)
(* + len(ptrs) + 1 as end; the records that were there stay as they are,   *)
(* and between the start and the end of a stored block lies no guard or    *)
(* blockheader record, whatever the other caller does in between.          *)
(***************************************************************************)
\* the step is the store_block of caller p
IsStoreBy(p) == proc[p].pc = "store" /\ proc'[p].pc # "store"

\* the block pointers the callers and the index hold
KnownBlocks(pr, ix) ==
    {pr[p].bp : p \in {q \in Procs : pr[q].bp # NoBlockPtr}}
        \cup {[start |-> e.start, end |-> e.end] : e \in UNION {ix[h] : h \in Hashes}}

\* the records from start to end are one block's: guard, content, blockheader
OneRun(rs, bp) ==
    /\ bp.start < bp.end /\ bp.end <= Len(rs)
    /\ rs[bp.start].ptr.kind = "guard"
    /\ rs[bp.end].ptr = BlockHdr(rs[bp.start].ptr.pos)
    /\ \A i \in (bp.start + 1)..(bp.end - 1) : rs[i].ptr.kind \notin {"guard", "block"}

C26_StoreAppendsOneRun ==
    [][/\ \A p \in Procs : IsStoreBy(p) =>
             LET h    == proc[p].blk
                 ptrs == VerifyAndStore(txIndex, BlockDef(h).txs, <<>>).ptrs
                 n    == Len(ptrs)
                 bp   == proc'[p].bp
             IN  /\ Len(recs') = Len(recs) + n + 2
                 /\ SubSeq(recs', 1, Len(recs)) = recs
                 /\ bp.start = Len(recs) + 1
                 /\ bp.end = bp.start + n + 1
                 /\ recs'[bp.start] = NewRecord(GuardHdr(h))
                 /\ \A k \in 1..n : recs'[bp.start + k].ptr = ptrs[k]
                 /\ recs'[bp.end].ptr = BlockHdr(h)
       /\ \A bp \in KnownBlocks(proc', index') : OneRun(recs', bp)
      ]_vars

\* both callers have stored a block, one right behind the other, and neither
\* call is over: block 4, with four content records, lies second
C26_Witness ==
    /\ \A p \in Procs : Active(p) /\ proc[p].bp # NoBlockPtr
    /\ \E p, q \in Procs :
          /\ proc[q].blk = 4
          /\ proc[q].bp.start = proc[p].bp.end + 1
          /\ proc[q].bp.end = proc[q].bp.start + 5

(***************************************************************************)
(* C27: a write that finds the tail file full (its write position has      *)
(* reached max_size) creates the next file with write position 16, stores  *)
(* the buffer there and returns the FilePtr of the new file at position    *)
(* 16; the buffer can be read back, and so can every buffer written to the *)
(* old file.                                                               *)
(***************************************************************************)
\* the next write finds a tail file, and finds it full
TailFull ==
    /\ ff.first_file # ff.last_file
    /\ HasMap(ff, ff.last_file - 1)
    /\ disk[ff.last_file - 1].wpos >= MaxSize

IsWriteStep == Len(wlog') = Len(wlog) + 1

C27_RolloverWriteSucceeds ==
    [][IsWriteStep /\ TailFull =>
          LET w == wlog'[Len(wlog')]
          IN  /\ w.ok
              /\ FileNumber(w.ptr) = ff.last_file
              /\ FilePos(w.ptr) = HeaderSize
              /\ disk'[ff.last_file].wpos = HeaderSize + 4 + Len(w.buffer)
              /\ \A k \in DOMAIN wlog' :
                    wlog'[k].ok =>
                        Read(ff', disk', wlog'[k].ptr)
                            = [ok |-> TRUE, bytes |-> wlog'[k].buffer]
      ]_vars

\* what the code does do in such a step: the next file is on disk, created
\* with write position 16, and the old file is as it was
RolloverCreatesNextFile ==
    [][IsWriteStep /\ TailFull =>
          /\ ff.last_file \in DOMAIN disk'
          /\ disk'[ff.last_file] = FreshFile
          /\ disk'[ff.last_file - 1] = disk[ff.last_file - 1]
      ]_vars

(***************************************************************************)
(* C28: with two FlatFileSet instances appending to one directory, the     *)
(* regions of the writes that returned never overlap, and every one of     *)
(* them still holds its length prefix and its bytes: no file creation by   *)
(* either writer, for the first file or at a rollover, destroys them.      *)
(***************************************************************************)
\* the write calls that returned a FilePtr
Returned == {k \in DOMAIN wlog : wlog[k].ok}

\* the bytes a write of buffer at ptr takes: length prefix and payload
RegionOf(ptr, buffer) == FilePos(ptr)..(FilePos(ptr) + 4 + Len(buffer) - 1)

\* the file holds the record of buffer at ptr
RecordAt(d, ptr, buffer) ==
    /\ FileNumber(ptr) \in DOMAIN d
    /\ GetBytes(d[FileNumber(ptr)].cells, FilePos(ptr), 4) = LenBytes(Len(buffer))
    /\ GetBytes(d[FileNumber(ptr)].cells, FilePos(ptr) + 4, Len(buffer)) = buffer

C28_WritersNeverCollide ==
    /\ \A k1, k2 \in Returned :
          /\ k1 # k2
          /\ FileNumber(wlog[k1].ptr) = FileNumber(wlog[k2].ptr)
          => RegionOf(wlog[k1].ptr, wlog[k1].buffer)
                \cap RegionOf(wlog[k2].ptr, wlog[k2].buffer) = {}
    /\ \A k \in Returned : RecordAt(disk, wlog[k].ptr, wlog[k].buffer)

\* what the lock does give: no file is locked by two writers, and two
\* writers are never between lock and unlock on one file
LockExcludes ==
    \A w1, w2 \in Writers :
        w1 # w2 =>
            /\ writers[w1].held \cap writers[w2].held = {}
            /\ /\ writers[w1].pc \in {"size", "len", "bytes", "psize", "unlock"}
               /\ writers[w2].pc \in {"size", "len", "bytes", "psize", "unlock"}
               => writers[w1].fileno # writers[w2].fileno

(***************************************************************************)
(* C29: in every state, also in the middle of a write, the bytes of every  *)
(* file between the header and its write position are the records of       *)
(* writes whose length prefix and payload are in place, one after the      *)
(* other, and the FilePtr of every such write reads as its buffer: a       *)
(* reader that takes no lock sees no partly written record.                *)
(***************************************************************************)
\* the writes whose write position has been stored: those that returned and
\* those about to unlock
Completed ==
    {[ptr |-> wlog[k].ptr, buffer |-> wlog[k].buffer] : k \in Returned}
        \cup {[ptr |-> writers[w].result, buffer |-> writers[w].buffer] :
                 w \in {x \in Writers : writers[x].pc = "unlock"}}

\* from pos to the write position file n is records of completed writes
RECURSIVE Tiled(_, _, _)
Tiled(n, pos, done) ==
    IF pos = disk[n].wpos
    THEN TRUE
    ELSE /\ pos < disk[n].wpos
         /\ \E c \in done :
               /\ c.ptr = FilePtrNew(n, pos)
               /\ RecordAt(disk, c.ptr, c.buffer)
               /\ Tiled(n, pos + 4 + Len(c.buffer), done)

C29_NoPartialRecord ==
    /\ \A n \in DOMAIN disk : Tiled(n, HeaderSize, Completed)
    /\ \A c \in Completed : RecordAt(disk, c.ptr, c.buffer)

\* the same while one instance only has used the directory: the order of
\* the three stores in write keeps it through every step of its writes
OneWriterOrdered ==
    (\A w \in Writers : w # 1 => writers[w] = NoWrite) => C29_NoPartialRecord

(***************************************************************************)
(* C30: a writer holds the lock of the file whose write position it reads  *)
(* or writes, from before the read to the unlock; in a recursive call it   *)
(* still holds the locks of the files of the calls around it; and a writer *)
(* that is not inside write, because the call returned or because it       *)
(* panicked, holds no lock.                                                *)
(***************************************************************************)
C30_LockHeldThroughWrite ==
    \A w \in Writers :
        /\ writers[w].pc \in {"size", "roll", "len", "bytes", "psize", "unlock"}
              => writers[w].fileno \in writers[w].held
        /\ writers[w].pc \in {"lock", "size", "roll", "len", "bytes", "psize", "unlock"}
              => Range(writers[w].frames) \subseteq writers[w].held
        /\ ~InCall(w) => writers[w].held = {}

\* the same with the calls that panicked left out
LockHeldUntilReturn ==
    \A w \in Writers :
        /\ writers[w].pc \in {"size", "roll", "len", "bytes", "psize", "unlock"}
              => writers[w].fileno \in writers[w].held
        /\ writers[w].pc \in {"lock", "size", "roll", "len", "bytes", "psize", "unlock"}
              => Range(writers[w].frames) \subseteq writers[w].held
        /\ writers[w].pc = "idle" => writers[w].held = {}

=============================================================================
